---- MODULE Spec2Model ----
(***************************************************************************)
(* Collection-and-curation pipeline of the AI article bot:                 *)
(*   RetryService (utils/retry.ts), DeduplicationService                   *)
(*   (utils/deduplication.ts), FilteringService (utils/filtering.ts) and   *)
(*   ArticleCollectorService (services/ArticleCollectorService.ts).        *)
(*                                                                         *)
(* Text is a sequence of characters.  An ASCII character is the one-letter *)
(* string itself; a character outside ASCII is written by its code point   *)
(* ("U5E74" is U+5E74).  Weights and scores are exact rationals: a weight  *)
(* w is kept as 100*w and a relevance score s as 300*s, so that            *)
(* (sum of weights and bonuses)/3 is the integer sum itself over 300.      *)
(***************************************************************************)
EXTENDS Integers, Sequences, FiniteSets, TLC

(***************************************************************************)
(* Characters and the String methods the services use                      *)
(***************************************************************************)
UpperChars == <<"A","B","C","D","E","F","G","H","I","J","K","L","M",
                "N","O","P","Q","R","S","T","U","V","W","X","Y","Z">>
LowerChars == <<"a","b","c","d","e","f","g","h","i","j","k","l","m",
                "n","o","p","q","r","s","t","u","v","w","x","y","z">>
DigitChars == <<"0","1","2","3","4","5","6","7","8","9">>
\* Fullwidth A, I, a, i, 1, 2 (U+FF21, U+FF29, U+FF41, U+FF49, U+FF11, U+FF12)
FullUpperChars == <<"UFF21", "UFF29">>
FullLowerChars == <<"UFF41", "UFF49">>
FullDigitChars == <<"UFF11", "UFF12">>
\* what charCode - 0xFEE0 gives for the fullwidth characters above
HalfOfFullLower == <<"a", "i">>
HalfOfFullUpper == <<"A", "I">>
HalfOfFullDigit == <<"1", "2">>

Range(s) == {s[i] : i \in 1..Len(s)}
IndexOf(s, c) == CHOOSE i \in 1..Len(s) : s[i] = c

\* \s of a JavaScript regular expression (space, tab, ideographic space)
IsSpace(c) == c \in {" ", "\t", "U3000"}
\* \d
IsDigit(c) == c \in Range(DigitChars)
\* \w
IsWord(c) == c \in Range(UpperChars) \cup Range(LowerChars) \cup Range(DigitChars) \cup {"_"}
\* U+3040-U+309F, U+30A0-U+30FF, U+4E00-U+9FAF: the characters of those
\* ranges that occur in the titles of this model
IsKanaOrCJK(c) == c \in {"U5E74", "U6708", "U65E5", "U30EA", "U30FC", "U30B9", "U3042"}

\* String.prototype.toLowerCase, one character
LowerChar(c) ==
    IF c \in Range(UpperChars) THEN LowerChars[IndexOf(UpperChars, c)]
    ELSE IF c \in Range(FullUpperChars) THEN FullLowerChars[IndexOf(FullUpperChars, c)]
    ELSE c

toLowerCase(s) == [i \in 1..Len(s) |-> LowerChar(s[i])]

RECURSIVE TrimStart(_)
TrimStart(s) == IF s # <<>> /\ IsSpace(Head(s)) THEN TrimStart(Tail(s)) ELSE s

RECURSIVE TrimEnd(_)
TrimEnd(s) ==
    IF s # <<>> /\ IsSpace(s[Len(s)]) THEN TrimEnd(SubSeq(s, 1, Len(s) - 1)) ELSE s

\* String.prototype.trim
trim(s) == TrimEnd(TrimStart(s))

\* text.includes(keyword): keyword occurs in text as a contiguous substring
includes(text, keyword) ==
    \E i \in 0..(Len(text) - Len(keyword)) :
        \A j \in 1..Len(keyword) : text[i + j] = keyword[j]

RECURSIVE join(_, _)
\* Array.prototype.join
join(parts, sep) ==
    IF parts = <<>> THEN <<>>
    ELSE IF Len(parts) = 1 THEN parts[1]
    ELSE parts[1] \o sep \o join(Tail(parts), sep)

(***************************************************************************)
(* DeduplicationService.normalizeTitle                                     *)
(***************************************************************************)
\* .replace(/[fullwidth A-Z a-z 0-9]/g, char - 0xFEE0)
HalfWidthChar(c) ==
    IF c \in Range(FullUpperChars) THEN HalfOfFullUpper[IndexOf(FullUpperChars, c)]
    ELSE IF c \in Range(FullLowerChars) THEN HalfOfFullLower[IndexOf(FullLowerChars, c)]
    ELSE IF c \in Range(FullDigitChars) THEN HalfOfFullDigit[IndexOf(FullDigitChars, c)]
    ELSE c

ToHalfWidth(s) == [i \in 1..Len(s) |-> HalfWidthChar(s[i])]

RECURSIVE CollapseSpaces(_)
\* .replace(/\s+/g, ' ')
CollapseSpaces(s) ==
    IF s = <<>> THEN <<>>
    ELSE IF IsSpace(Head(s)) THEN <<" ">> \o CollapseSpaces(TrimStart(s))
    ELSE <<Head(s)>> \o CollapseSpaces(Tail(s))

\* .replace(/[^\w\s<hiragana><katakana><CJK>]/g, '')
KeepsChar(c) == IsWord(c) \/ IsSpace(c) \/ IsKanaOrCJK(c)

StripSpecial(s) == SelectSeq(s, KeepsChar)

DatePlaceholder == <<"Y","Y","Y","Y","-","M","M","-","D","D">>
VersionPlaceholder == <<"v","X",".","X",".","X">>

At(s, i) == IF i >= 1 /\ i <= Len(s) THEN s[i] ELSE "EOS"

RECURSIVE DigitRun(_, _)
\* number of consecutive digits of s from position i on
DigitRun(s, i) == IF IsDigit(At(s, i)) THEN 1 + DigitRun(s, i + 1) ELSE 0

\* length of the match of /\d{4}[<U5E74>\/\-]\d{1,2}[<U6708>\/\-]\d{1,2}[<U65E5>]?/ that
\* starts at position i of s, 0 when there is none
DateMatchLen(s, i) ==
    LET sep1 == {"U5E74", "/", "-"}
        sep2 == {"U6708", "/", "-"}
        m == IF DigitRun(s, i + 5) >= 2 /\ At(s, i + 7) \in sep2 THEN 2
             ELSE IF DigitRun(s, i + 5) >= 1 /\ At(s, i + 6) \in sep2 THEN 1
             ELSE 0
        d == IF DigitRun(s, i + 6 + m) >= 2 THEN 2
             ELSE IF DigitRun(s, i + 6 + m) >= 1 THEN 1
             ELSE 0
        e == i + 6 + m + d
    IN  IF /\ \A k \in 0..3 : IsDigit(At(s, i + k))
           /\ At(s, i + 4) \in sep1
           /\ m > 0
           /\ d > 0
        THEN (e - i) + (IF At(s, e) = "U65E5" THEN 1 ELSE 0)
        ELSE 0

\* length of the match of /v?\d+\.\d+(\.\d+)?/ that starts at position i
VersionMatchLen(s, i) ==
    LET j  == IF At(s, i) = "v" THEN i + 1 ELSE i
        n1 == DigitRun(s, j)
        n2 == DigitRun(s, j + n1 + 1)
        k  == j + n1 + 1 + n2
        n3 == DigitRun(s, k + 1)
    IN  IF n1 >= 1 /\ At(s, j + n1) = "." /\ n2 >= 1
        THEN (k - i) + (IF At(s, k) = "." /\ n3 >= 1 THEN 1 + n3 ELSE 0)
        ELSE 0

RECURSIVE ReplaceDatesFrom(_, _)
ReplaceDatesFrom(s, i) ==
    IF i > Len(s) THEN <<>>
    ELSE IF DateMatchLen(s, i) > 0
         THEN DatePlaceholder \o ReplaceDatesFrom(s, i + DateMatchLen(s, i))
         ELSE <<s[i]>> \o ReplaceDatesFrom(s, i + 1)

RECURSIVE ReplaceVersionsFrom(_, _)
ReplaceVersionsFrom(s, i) ==
    IF i > Len(s) THEN <<>>
    ELSE IF VersionMatchLen(s, i) > 0
         THEN VersionPlaceholder \o ReplaceVersionsFrom(s, i + VersionMatchLen(s, i))
         ELSE <<s[i]>> \o ReplaceVersionsFrom(s, i + 1)

normalizeTitle(title) ==
    ReplaceVersionsFrom(
        ReplaceDatesFrom(
            StripSpecial(CollapseSpaces(ToHalfWidth(trim(toLowerCase(title))))), 1), 1)

(***************************************************************************)
(* DeduplicationService.normalizeUrl                                       *)
(* A URL is kept in the components `new URL` parses it into: host, path    *)
(* segments (a path ending in "/" has a last segment "", and the path "/"  *)
(* is <<"">>) and the list of query parameters.  A string `new URL`        *)
(* rejects has valid = FALSE and is identified by raw.                     *)
(***************************************************************************)
paramsToRemove == {"utm_source", "utm_medium", "utm_campaign", "ref", "source"}

KeepsParam(p) == p.k \notin paramsToRemove

\* a strip that does not spare the path "/"
StripTrailingSlashAlways(path) ==
    IF path # <<>> /\ path[Len(path)] = ""
    THEN SubSeq(path, 1, Len(path) - 1)
    ELSE path

\* pathname !== '/' && pathname.endsWith('/') ? pathname.slice(0, -1) : pathname
StripTrailingSlash(path) ==
    IF path # <<"">> /\ path # <<>> /\ path[Len(path)] = ""
    THEN SubSeq(path, 1, Len(path) - 1)
    ELSE path

normalizeUrl(url) ==
    IF url.valid
    THEN [url EXCEPT !.query = SelectSeq(@, KeepsParam),
                     !.path  = StripTrailingSlash(@)]
    ELSE url

createArticleHash(article) ==
    [url             |-> normalizeUrl(article.url),
     title           |-> article.title,
     normalizedTitle |-> normalizeTitle(article.title)]

(***************************************************************************)
(* FilteringService                                                        *)
(***************************************************************************)
AI_KEYWORDS == <<
    [keyword |-> <<"c","h","a","t","g","p","t">>, weight |-> 100],
    [keyword |-> <<"g","p","t">>, weight |-> 100],
    [keyword |-> <<"o","p","e","n","a","i">>, weight |-> 100],
    [keyword |-> <<"c","l","a","u","d","e">>, weight |-> 100],
    [keyword |-> <<"l","l","m">>, weight |-> 100],
    [keyword |-> <<"U5927","U898F","U6A21","U8A00","U8A9E","U30E2","U30C7","U30EB">>, weight |-> 100],
    [keyword |-> <<"t","r","a","n","s","f","o","r","m","e","r">>, weight |-> 90],
    [keyword |-> <<"b","e","r","t">>, weight |-> 90],
    [keyword |-> <<"a","i">>, weight |-> 80],
    [keyword |-> <<"U4EBA","U5DE5","U77E5","U80FD">>, weight |-> 80],
    [keyword |-> <<"m","a","c","h","i","n","e"," ","l","e","a","r","n","i","n","g">>, weight |-> 80],
    [keyword |-> <<"U6A5F","U68B0","U5B66","U7FD2">>, weight |-> 80],
    [keyword |-> <<"d","e","e","p"," ","l","e","a","r","n","i","n","g">>, weight |-> 80],
    [keyword |-> <<"U30C7","U30A3","U30FC","U30D7","U30E9","U30FC","U30CB","U30F3","U30B0">>, weight |-> 80],
    [keyword |-> <<"n","e","u","r","a","l"," ","n","e","t","w","o","r","k">>, weight |-> 70],
    [keyword |-> <<"U30CB","U30E5","U30FC","U30E9","U30EB","U30CD","U30C3","U30C8","U30EF","U30FC","U30AF">>, weight |-> 70],
    [keyword |-> <<"n","l","p">>, weight |-> 60],
    [keyword |-> <<"U81EA","U7136","U8A00","U8A9E","U51E6","U7406">>, weight |-> 60],
    [keyword |-> <<"c","o","m","p","u","t","e","r"," ","v","i","s","i","o","n">>, weight |-> 60],
    [keyword |-> <<"U753B","U50CF","U8A8D","U8B58">>, weight |-> 60],
    [keyword |-> <<"U753B","U50CF","U751F","U6210">>, weight |-> 60],
    [keyword |-> <<"s","t","a","b","l","e"," ","d","i","f","f","u","s","i","o","n">>, weight |-> 70],
    [keyword |-> <<"m","i","d","j","o","u","r","n","e","y">>, weight |-> 70],
    [keyword |-> <<"d","a","l","l","e">>, weight |-> 70],
    [keyword |-> <<"p","y","t","o","r","c","h">>, weight |-> 50],
    [keyword |-> <<"t","e","n","s","o","r","f","l","o","w">>, weight |-> 50],
    [keyword |-> <<"h","u","g","g","i","n","g","f","a","c","e">>, weight |-> 50],
    [keyword |-> <<"r","a","g">>, weight |-> 60],
    [keyword |-> <<"f","i","n","e","-","t","u","n","i","n","g">>, weight |-> 50],
    [keyword |-> <<"e","m","b","e","d","d","i","n","g">>, weight |-> 50]
>>

RECURSIVE IsSubsequence(_, _)
\* s can be obtained from t by deleting elements
IsSubsequence(s, t) ==
    IF s = <<>> THEN TRUE
    ELSE IF t = <<>> THEN FALSE
    ELSE IF Head(s) = Head(t) THEN IsSubsequence(Tail(s), Tail(t))
    ELSE IsSubsequence(s, Tail(t))

RECURSIVE SumSeq(_)
SumSeq(s) == IF s = <<>> THEN 0 ELSE Head(s) + SumSeq(Tail(s))

Min(a, b) == IF a <= b THEN a ELSE b

\* `${title} ${excerpt || ''} ${tags.join(' ')}`.toLowerCase()
ArticleText(article) ==
    toLowerCase(article.title \o <<" ">>
                \o (IF article.hasExcerpt THEN article.excerpt ELSE <<>>)
                \o <<" ">> \o join(article.tags, <<" ">>))

\* first two loops: table weight, or 0.5 for a custom keyword, per keyword
\* found in the text
RawScore(article, customKeywords) ==
    LET text == ArticleText(article)
    IN  SumSeq([i \in 1..Len(AI_KEYWORDS) |->
                  IF includes(text, toLowerCase(AI_KEYWORDS[i].keyword))
                  THEN AI_KEYWORDS[i].weight ELSE 0])
        + SumSeq([i \in 1..Len(customKeywords) |->
                  IF includes(text, toLowerCase(customKeywords[i])) THEN 50 ELSE 0])

\* weight * 0.3 per table keyword found in the title
TitleBonus(article) ==
    LET titleText == toLowerCase(article.title)
    IN  SumSeq([i \in 1..Len(AI_KEYWORDS) |->
                  IF includes(titleText, toLowerCase(AI_KEYWORDS[i].keyword))
                  THEN (AI_KEYWORDS[i].weight * 3) \div 10 ELSE 0])

\* weight * 0.2 per tag and table keyword found in that tag
TagBonus(article) ==
    SumSeq([t \in 1..Len(article.tags) |->
        SumSeq([i \in 1..Len(AI_KEYWORDS) |->
                  IF includes(toLowerCase(article.tags[t]),
                              toLowerCase(AI_KEYWORDS[i].keyword))
                  THEN (AI_KEYWORDS[i].weight * 2) \div 10 ELSE 0])])

\* bands that include their lower limit
PopularityBonusInclusive(article) ==
    IF article.hasScore /\ article.score # 0
    THEN IF article.score >= 100 THEN 20
         ELSE IF article.score >= 50 THEN 10
         ELSE IF article.score >= 20 THEN 5
         ELSE 0
    ELSE 0

\* 0.2, 0.1, 0.05 or 0; `if (article.score)` is false for undefined and for 0
PopularityBonus(article) ==
    IF article.hasScore /\ article.score # 0
    THEN IF article.score > 100 THEN 20
         ELSE IF article.score > 50 THEN 10
         ELSE IF article.score > 20 THEN 5
         ELSE 0
    ELSE 0

\* the division without the clamp
NormalizeNoClamp(total) == total

\* Math.min(1.0, x / 3) in units of 1/300, x in units of 1/100
Normalize(total) == Min(300, total)

calculateRelevanceScore(article, customKeywords) ==
    Normalize(RawScore(article, customKeywords) + TitleBonus(article)
              + TagBonus(article) + PopularityBonus(article))

\* a search for the keywords as they are written in the configuration
containsExcludeKeywordsCaseSensitive(article, excludeKeywords) ==
    IF Len(excludeKeywords) = 0 THEN FALSE
    ELSE \E i \in 1..Len(excludeKeywords) :
            includes(ArticleText(article), excludeKeywords[i])

containsExcludeKeywords(article, excludeKeywords) ==
    IF Len(excludeKeywords) = 0 THEN FALSE
    ELSE \E i \in 1..Len(excludeKeywords) :
            includes(ArticleText(article), toLowerCase(excludeKeywords[i]))

\* Array.prototype.sort with (a, b) => b.relevanceScore - a.relevanceScore:
\* the sort is stable (ECMAScript 2019), so an element goes behind every
\* element already placed that the comparator does not order after it
\* an unstable sort: an element goes before the elements it ties with
ComesBeforeUnstable(a, b) == a.relevanceScore > b.relevanceScore

ComesBefore(a, b) == a.relevanceScore >= b.relevanceScore

\* the place the stable sort gives the i-th element: behind the earlier
\* elements the comparator does not order after it, and behind the later
\* elements it does not come before
PlaceOf(s, i) ==
    1 + Cardinality({j \in 1..(i - 1) : ComesBefore(s[j], s[i])})
      + Cardinality({j \in (i + 1)..Len(s) : ~ComesBefore(s[i], s[j])})

SortByScore(s) ==
    [p \in 1..Len(s) |-> s[CHOOSE i \in 1..Len(s) : PlaceOf(s, i) = p]]

\* the limit step left out
SliceAll(s, n) == s

\* a slice that keeps the last n elements
SliceTail(s, n) == SubSeq(s, Len(s) - Min(Len(s), n) + 1, Len(s))

\* Array.prototype.slice(0, n)
Slice0(s, n) == SubSeq(s, 1, Min(Len(s), n))


(***************************************************************************)
(* RetryService.withRetry and withRetryCondition                           *)
(* A call is [mode, maxRetries, attempt, pc, lastError, value, error] plus *)
(* the counts of operation() calls and of sleeps it has made.  The code    *)
(* between two awaits runs as one step: pc is the await the call is        *)
(* suspended at ("awaiting" the operation, "sleeping" between attempts),   *)
(* or how it ended ("returned", "thrown").  The error and the value of the *)
(* operation's i-th invocation are identified by i.                        *)
(***************************************************************************)
\* new Error('Unknown error')
UnknownError == [inv |-> 0, kind |-> "Unknown error"]

NoValue == [inv |-> 0]

RetryError(attemptCount, lastError) ==
    [name |-> "RetryError", attemptCount |-> attemptCount, lastError |-> lastError]

NoError == [name |-> "none", attemptCount |-> 0, lastError |-> UnknownError]

NewCall(mode, maxRetries) ==
    [mode |-> mode, maxRetries |-> maxRetries, attempt |-> 0, pc |-> "idle",
     lastError |-> UnknownError, value |-> NoValue, error |-> NoError,
     invocations |-> 0, sleeps |-> 0]

\* a loop that gives up one attempt early
LoopContinuesOneShort(attempt, maxRetries) == attempt <= maxRetries

\* attempt <= finalConfig.maxRetries + 1
LoopContinues(attempt, maxRetries) == attempt <= maxRetries + 1

\* attempt++
NextAttempt(attempt) == attempt + 1

\* throw new RetryError(finalConfig.maxRetries + 1, lastError)
Throw(c) ==
    [c EXCEPT !.pc = "thrown", !.error = RetryError(c.maxRetries + 1, c.lastError)]

\* the loop test for `attempt`, then `await operation()` or the throw behind
\* the loop
Enter(c, attempt) ==
    IF LoopContinues(attempt, c.maxRetries)
    THEN [c EXCEPT !.attempt = attempt, !.pc = "awaiting", !.invocations = @ + 1]
    ELSE Throw(c)

\* the catch clause forgets the error
CaughtNothing(c, error) == c

\* lastError = error instanceof Error ? error : new Error(String(error))
Caught(c, error) == [c EXCEPT !.lastError = error]

\* await RetryService.sleep(delay)
Sleep(c) == [c EXCEPT !.pc = "sleeping", !.sleeps = @ + 1]

\* return result
OnResolve(c, value) == [c EXCEPT !.pc = "returned", !.value = value]

\* a catch clause that sleeps after every failed attempt, the last included
OnRejectWithRetrySleepingLast(c, error) == Sleep(Caught(c, error))

\* catch of withRetry
OnRejectWithRetry(c, error) ==
    IF c.attempt <= c.maxRetries
    THEN Sleep(Caught(c, error))
    ELSE Enter(Caught(c, error), NextAttempt(c.attempt))

\* the predicate's answer is not looked at
SleepsBeforeRetryIgnoringPredicate(c, shouldContinue) == c.attempt <= c.maxRetries

\* attempt <= finalConfig.maxRetries && shouldContinue
SleepsBeforeRetry(c, shouldContinue) == c.attempt <= c.maxRetries /\ shouldContinue

\* catch of withRetryCondition; shouldContinue is shouldRetry(lastError, attempt)
OnRejectWithRetryCondition(c, error, shouldContinue) ==
    IF SleepsBeforeRetry(c, shouldContinue)
    THEN Sleep(Caught(c, error))
    ELSE Throw(Caught(c, error))

\* the sleep timer fires: next turn of the loop
OnWake(c) == Enter(c, NextAttempt(c.attempt))

RECURSIVE Pow(_, _)
\* Math.pow for a whole exponent
Pow(b, e) == IF e = 0 THEN 1 ELSE b * Pow(b, e - 1)

Max(a, b) == IF a >= b THEN a ELSE b

\* the delay with its jitter, returned without the two limits
calculateDelayUnclamped(attempt, config, draw) ==
    LET exponentialDelay == config.baseDelay * Pow(config.backoffMultiplier, attempt - 1)
    IN  16 * exponentialDelay + exponentialDelay * draw

\* calculateDelay in units of 1/16 ms; draw is Math.random() * 2 - 1 in
\* quarters, so that the jitter exponentialDelay * 0.25 * (draw / 4) is
\* exponentialDelay * draw sixteenths of a millisecond
calculateDelay(attempt, config, draw) ==
    LET exponentialDelay == config.baseDelay * Pow(config.backoffMultiplier, attempt - 1)
        jitter == exponentialDelay * draw
        delayWithJitter == 16 * exponentialDelay + jitter
    IN  Min(30000 * 16, Max(100 * 16, delayWithJitter))

\* what the operation's i-th invocation resolves with or rejects with
ValueOf(i) == [inv |-> i]
ErrorOf(i, kind) == [inv |-> i, kind |-> kind]

\* new Error(`Operation '${operationName}' timed out after ${timeoutMs}ms`),
\* made by the timer of the i-th executeWithTimeout
TimeoutErrorOf(i) == ErrorOf(i, "timed out")

\* a timeout that ends the call at once
OnTimeoutNotRetried(c) == Throw(Caught(c, TimeoutErrorOf(c.invocations)))

\* executeWithTimeout under withRetry: the timer rejects timeoutPromise before
\* operation() has settled, Promise.race rejects, the catch rethrows, and
\* withRetry catches the error
OnTimeout(c) == OnRejectWithRetry(c, TimeoutErrorOf(c.invocations))

(***************************************************************************)
(* The articles adapters return in this model, each as an adapter creates  *)
(* it (relevanceScore 0).  a2 has the normalized title of a1, a3 has the   *)
(* normalized URL of a1; a1 and a2 reach the clamp, a3 and a5 tie.         *)
(***************************************************************************)
Url(host, path, query) ==
    [valid |-> TRUE, raw |-> "", host |-> host, path |-> path, query |-> query]

InvalidUrl(raw) ==
    [valid |-> FALSE, raw |-> raw, host |-> "", path |-> <<>>, query |-> <<>>]

a1 == [id |-> "qiita-1", source |-> "qiita",
       title |-> <<"C","h","a","t","G","P","T"," ","t","i","p","s">>,
       url |-> Url("q.com", <<"a1">>, <<>>),
       tags |-> << <<"a","i">> >>,
       hasExcerpt |-> FALSE, excerpt |-> <<>>,
       hasScore |-> FALSE, score |-> 0, relevanceScore |-> 0]

a2 == [id |-> "zenn-1", source |-> "zenn",
       title |-> <<"C","h","a","t","G","P","T"," "," ","T","i","p","s","!">>,
       url |-> Url("z.com", <<"a2">>, <<>>),
       tags |-> << <<"c","h","a","t","g","p","t">> >>,
       hasExcerpt |-> FALSE, excerpt |-> <<>>,
       hasScore |-> FALSE, score |-> 0, relevanceScore |-> 0]

a3 == [id |-> "hn-1", source |-> "hackernews",
       title |-> <<"L","L","M"," ","n","e","w","s">>,
       url |-> Url("q.com", <<"a1", "">>, <<[k |-> "utm_source", v |-> "hn"]>>),
       tags |-> <<>>,
       hasExcerpt |-> FALSE, excerpt |-> <<>>,
       hasScore |-> TRUE, score |-> 150, relevanceScore |-> 0]

a4 == [id |-> "devto-1", source |-> "devto",
       title |-> <<"R","A","G"," ","i","n","t","r","o">>,
       url |-> Url("d.com", <<"r">>, <<[k |-> "page", v |-> "2"]>>),
       tags |-> <<>>,
       hasExcerpt |-> FALSE, excerpt |-> <<>>,
       hasScore |-> TRUE, score |-> 60, relevanceScore |-> 0]

a5 == [id |-> "devto-2", source |-> "devto",
       title |-> <<"N","L","P"," ","g","u","i","d","e">>,
       url |-> InvalidUrl("d.com/n"),
       tags |-> << <<"r","a","g">> >>,
       hasExcerpt |-> FALSE, excerpt |-> <<>>,
       hasScore |-> TRUE, score |-> 20, relevanceScore |-> 0]

a6 == [id |-> "qiita-2", source |-> "qiita",
       title |-> <<"C","o","o","k","i","n","g">>,
       url |-> Url("q.com", <<"">>, <<>>),
       tags |-> <<>>,
       hasExcerpt |-> TRUE,
       excerpt |-> <<"S","p","o","n","s","o","r","e","d"," ","p","o","s","t">>,
       hasScore |-> TRUE, score |-> 10, relevanceScore |-> 0]

Articles == {a1, a2, a3, a4, a5, a6}

\* Articles for the DeduplicationService on its own.  a7 has the normalized
\* title of a3 and a URL of its own; a8, a9 and a10 carry the title
\* "2024<U5E74>1<U6708>15<U65E5> v1.2.3 <U30EA><U30EA><U30FC><U30B9>" with, for a9, another
\* day and, for a10, another version number.
a7 == [id |-> "zenn-2", source |-> "zenn",
       title |-> <<"l","l","m"," ","N","e","w","s">>,
       url |-> Url("z.com", <<"a7">>, <<>>),
       tags |-> <<>>,
       hasExcerpt |-> FALSE, excerpt |-> <<>>,
       hasScore |-> FALSE, score |-> 0, relevanceScore |-> 0]

ReleaseTitle(day, version) ==
    <<"2","0","2","4","U5E74","1","U6708","1",day,"U65E5"," ">> \o version
        \o <<" ","U30EA","U30EA","U30FC","U30B9">>

a8 == [id |-> "qiita-8", source |-> "qiita",
       title |-> ReleaseTitle("5", <<"v","1",".","2",".","3">>),
       url |-> Url("q.com", <<"a8">>, <<>>),
       tags |-> <<>>,
       hasExcerpt |-> FALSE, excerpt |-> <<>>,
       hasScore |-> FALSE, score |-> 0, relevanceScore |-> 0]

a9 == [a8 EXCEPT !.id = "qiita-9", !.url = Url("q.com", <<"a9">>, <<>>),
                 !.title = ReleaseTitle("6", <<"v","1",".","2",".","3">>)]

a10 == [a8 EXCEPT !.id = "qiita-10", !.url = Url("q.com", <<"a10">>, <<>>),
                  !.title = ReleaseTitle("5", <<"v","1",".","2",".","4">>)]

DedupArticles == {a1, a3, a7, a8, a9, a10}

\* Articles for calculateRelevanceScore on its own: every combination of two
\* titles, three tag lists, an excerpt or none, and a popularity score that
\* is undefined, 0, or at or just above each band limit
ScoreTitles == { <<"C","h","a","t","G","P","T"," ","t","i","p","s">>,
                 <<"C","o","o","k","i","n","g">> }
ScoreTagLists == { <<>>, << <<"a","i">> >>, << <<"R","A","G">>, <<"l","l","m">> >> }
ScoreExcerpts == { <<>>, <<"A","b","o","u","t"," ","A","I">> }
PopularityScores == {0, 20, 21, 50, 51, 100, 101}

ScoreArticles ==
    { [id |-> "s", source |-> "qiita", title |-> title,
       url |-> Url("s.com", <<"s">>, <<>>), tags |-> tags,
       hasExcerpt |-> excerpt # <<>>, excerpt |-> excerpt,
       hasScore |-> hasScore, score |-> IF hasScore THEN score ELSE 0,
       relevanceScore |-> 0] :
         title \in ScoreTitles, tags \in ScoreTagLists, excerpt \in ScoreExcerpts,
         hasScore \in BOOLEAN, score \in PopularityScores }

\* config.keywords
KeywordLists == { <<>>, << <<"A","I">>, <<"C","o","o","k">> >> }
\* config.filtering.excludeKeywords
ExcludeLists == { <<>>, << <<"S","p","o","n","s","o","r","e","d">> >>,
                  << <<"T","I","P","S">> >> }
\* config.filtering.minRelevanceScore: 0, 0.3, 0.5, 0.9 (in units of 1/300)
MinScores == {0, 90, 150, 270}

\* longest article list handed to filterArticles on its own
MaxLen == 3
\* largest config.filtering.maxArticlesPerDay
MaxPerDay == 2

RECURSIVE SeqsUpTo(_, _)
\* the sequences over S of length at most n
SeqsUpTo(S, n) ==
    IF n = 0 THEN {<<>>}
    ELSE LET shorter == SeqsUpTo(S, n - 1)
         IN  shorter \cup {Append(s, x) : s \in shorter, x \in S}

\* longest query string of the URLs handed to normalizeUrl on its own
MaxQuery == 2

\* URLs for normalizeUrl on its own: the paths "/", "/x", "/x/" and "/x//"
\* of one host with every query of up to MaxQuery parameters, and a string
\* `new URL` rejects
UrlParams ==
    { [k |-> "utm_source", v |-> "y"], [k |-> "utm_medium", v |-> "m"],
      [k |-> "utm_campaign", v |-> "c"], [k |-> "ref", v |-> "z"],
      [k |-> "source", v |-> "s"], [k |-> "page", v |-> "2"] }
UrlPaths == { <<"">>, <<"x">>, <<"x", "">>, <<"x", "", "">> }
Urls ==
    {Url("a.com", path, query) : path \in UrlPaths, query \in SeqsUpTo(UrlParams, MaxQuery)}
        \cup {InvalidUrl("a.com/x/?ref=z")}
\* the URLs of the first article of a pair
FirstUrls == { Url("a.com", <<"">>, <<>>), Url("a.com", <<"x">>, <<>>),
               Url("a.com", <<"x">>, <<[k |-> "page", v |-> "2"]>>),
               InvalidUrl("a.com/x/?ref=z") }
\* two articles of different titles under these URLs
UrlArticles ==
    {[a1 EXCEPT !.url = u] : u \in FirstUrls} \cup {[a7 EXCEPT !.url = u] : u \in Urls}

Criterias ==
    [keywords : KeywordLists, excludeKeywords : ExcludeLists,
     minRelevanceScore : MinScores, maxArticlesPerDay : 1..MaxPerDay]

\* calculateRelevanceScore over the articles and keyword lists of this
\* model, evaluated once: the value of calculateRelevanceScore(a, k)
ScoreOf ==
    [a \in Articles \cup ScoreArticles, k \in KeywordLists |-> calculateRelevanceScore(a, k)]

\* { ...article, relevanceScore: this.calculateRelevanceScore(article, keywords) }
WithScore(article, criteria) ==
    [article EXCEPT !.relevanceScore =
        ScoreOf[[article EXCEPT !.relevanceScore = 0], criteria.keywords]]

\* containsExcludeKeywords over the articles and exclude lists of this model,
\* evaluated once (the score is not part of the text it searches)
ExcludedBy ==
    [a \in Articles \cup ScoreArticles, e \in ExcludeLists |-> containsExcludeKeywords(a, e)]

NotExcluded(articlesWithScore, criteria) ==
    LET keep(a) == ~ExcludedBy[[a EXCEPT !.relevanceScore = 0], criteria.excludeKeywords]
    IN  SelectSeq(articlesWithScore, keep)

\* a threshold that drops the articles scoring the minimum exactly
RelevantStrict(notExcluded, criteria) ==
    LET keep(a) == a.relevanceScore > criteria.minRelevanceScore
    IN  SelectSeq(notExcluded, keep)

\* articlesWithScore ... .filter(article => article.relevanceScore >= minRelevanceScore)
Relevant(notExcluded, criteria) ==
    LET keep(a) == a.relevanceScore >= criteria.minRelevanceScore
    IN  SelectSeq(notExcluded, keep)

\* a map that stores the score in the article it was handed
ArticlesAfterFilterScoredInPlace(articles, criteria) ==
    [i \in 1..Len(articles) |-> WithScore(articles[i], criteria)]

\* the array handed to filterArticles, and the articles in it, after the
\* call: map builds new objects in a new array, filter and slice build new
\* arrays, and sort reorders the array the second filter built
ArticlesAfterFilter(articles, criteria) == articles

filterArticles(articles, criteria) ==
    LET articlesWithScore == [i \in 1..Len(articles) |-> WithScore(articles[i], criteria)]
        notExcluded == NotExcluded(articlesWithScore, criteria)
        relevant    == Relevant(notExcluded, criteria)
        sorted      == SortByScore(relevant)
    IN  Slice0(sorted, criteria.maxArticlesPerDay)

(***************************************************************************)
(* DeduplicationService.deduplicateArticles                                *)
(***************************************************************************)
\* createArticleHash over the articles of this model, evaluated once: the
\* value of createArticleHash(a)
HashOf == [a \in Articles \cup DedupArticles \cup UrlArticles |-> createArticleHash(a)]

\* a pass that checks the URL only
AdmitStepUrlOnly(st, article) ==
    LET hash == HashOf[article]
    IN  IF hash.url \in st.seenUrls THEN [st EXCEPT !.duplicateCount.url = @ + 1]
        ELSE [st EXCEPT !.unique     = Append(@, article),
                        !.seenUrls   = @ \cup {hash.url},
                        !.seenTitles = @ \cup {hash.normalizedTitle}]

\* a pass that records the URL and the title of an article it drops, too
AdmitStepRecordsDropped(st, article) ==
    LET hash == HashOf[article]
        seen == [st EXCEPT !.seenUrls = @ \cup {hash.url},
                           !.seenTitles = @ \cup {hash.normalizedTitle}]
    IN  IF hash.url \in st.seenUrls
        THEN [seen EXCEPT !.duplicateCount.url = @ + 1]
        ELSE IF hash.normalizedTitle \in st.seenTitles
        THEN [seen EXCEPT !.duplicateCount.title = @ + 1]
        ELSE [seen EXCEPT !.unique = Append(@, article)]

\* a pass that looks at the title first
AdmitStepTitleFirst(st, article) ==
    LET hash == HashOf[article]
    IN  IF hash.normalizedTitle \in st.seenTitles
        THEN [st EXCEPT !.duplicateCount.title = @ + 1]
        ELSE IF hash.url \in st.seenUrls
        THEN [st EXCEPT !.duplicateCount.url = @ + 1]
        ELSE [st EXCEPT !.unique     = Append(@, article),
                        !.seenUrls   = @ \cup {hash.url},
                        !.seenTitles = @ \cup {hash.normalizedTitle}]

RECURSIVE FillRow(_, _, _, _)
\* the inner loop of calculateSimilarity for one character c of str1:
\* prevRow is matrix[i - 1], row the part of matrix[i] filled so far (both
\* start at column 0, kept at index 1)
FillRow(prevRow, row, c, str2) ==
    IF Len(row) > Len(str2) THEN row
    ELSE LET j == Len(row)
             cost == IF c = str2[j] THEN 0 ELSE 1
             cell == Min(Min(prevRow[j + 1] + 1, row[j] + 1), prevRow[j] + cost)
         IN  FillRow(prevRow, Append(row, cell), c, str2)

RECURSIVE FillMatrix(_, _, _, _)
\* the outer loop from row i on; the result is matrix[len1]
FillMatrix(prevRow, i, str1, str2) ==
    IF i > Len(str1) THEN prevRow
    ELSE CHOOSE last \in {FillMatrix(row, i + 1, str1, str2) :
                            row \in {FillRow(prevRow, <<i>>, str1[i], str2)}} : TRUE

\* matrix[len1][len2]
Levenshtein(str1, str2) ==
    FillMatrix([j \in 1..(Len(str2) + 1) |-> j - 1], 1, str1, str2)[Len(str2) + 1]

\* calculateSimilarity(str1, str2) >= 0.8, that is
\* 1 - distance / maxLength >= 0.8
SimilarityReachesThreshold(str1, str2) ==
    IF Len(str1) = 0 THEN Len(str2) = 0
    ELSE IF Len(str2) = 0 THEN FALSE
    ELSE 5 * Levenshtein(str1, str2) <= Max(Len(str1), Len(str2))

\* isSimilarTitle(title1, title2) with the default threshold
isSimilarTitle(title1, title2) ==
    LET normalized1 == normalizeTitle(title1)
        normalized2 == normalizeTitle(title2)
    IN  IF normalized1 = normalized2 THEN TRUE
        ELSE SimilarityReachesThreshold(normalized1, normalized2)

\* isSimilarTitle over the titles of this model's articles, evaluated once
SimilarTitles ==
    [a \in DedupArticles, b \in DedupArticles |-> isSimilarTitle(a.title, b.title)]

\* a pass that also drops an item whose title isSimilarTitle to that of an
\* item kept earlier in the call
AdmitStepSimilarTitles(st, article) ==
    LET hash == HashOf[article]
    IN  IF hash.url \in st.seenUrls
        THEN [st EXCEPT !.duplicateCount.url = @ + 1]
        ELSE IF \/ hash.normalizedTitle \in st.seenTitles
                \/ \E i \in 1..Len(st.unique) : SimilarTitles[st.unique[i], article]
        THEN [st EXCEPT !.duplicateCount.title = @ + 1]
        ELSE [st EXCEPT !.unique     = Append(@, article),
                        !.seenUrls   = @ \cup {hash.url},
                        !.seenTitles = @ \cup {hash.normalizedTitle}]

\* a pass that records the URL of an item it keeps, and not its title
AdmitStepTitleUnrecorded(st, article) ==
    LET hash == HashOf[article]
    IN  IF hash.url \in st.seenUrls
        THEN [st EXCEPT !.duplicateCount.url = @ + 1]
        ELSE IF hash.normalizedTitle \in st.seenTitles
        THEN [st EXCEPT !.duplicateCount.title = @ + 1]
        ELSE [st EXCEPT !.unique     = Append(@, article),
                        !.seenUrls   = @ \cup {hash.url}]

\* one pass of the for loop: st = [unique, seenUrls, seenTitles,
\* duplicateCount]
AdmitStep(st, article) ==
    LET hash == HashOf[article]
    IN  IF hash.url \in st.seenUrls
        THEN [st EXCEPT !.duplicateCount.url = @ + 1]
        ELSE IF hash.normalizedTitle \in st.seenTitles
        THEN [st EXCEPT !.duplicateCount.title = @ + 1]
        ELSE [st EXCEPT !.unique     = Append(@, article),
                        !.seenUrls   = @ \cup {hash.url},
                        !.seenTitles = @ \cup {hash.normalizedTitle}]

RECURSIVE AdmitFrom(_, _, _)
\* the for loop from the i-th article on, st being the state the earlier
\* passes left (bound as a value, so that each pass is evaluated once)
AdmitFrom(st0, articles, i) ==
    IF i > Len(articles) THEN st0
    ELSE CHOOSE r \in {AdmitFrom(AdmitStep(st, articles[i]), articles, i + 1) : st \in {st0}} :
            TRUE

\* the array handed to deduplicateArticles, and the articles in it, after
\* the call: the loop reads them and pushes the kept ones onto a new array
ArticlesAfterDeduplicate(articles) == articles

\* the returned list, the seen-sets the call leaves behind and the counts
\* it logs
deduplicateArticles(articles, urls, titles) ==
    AdmitFrom([unique |-> <<>>, seenUrls |-> urls, seenTitles |-> titles,
               duplicateCount |-> [url |-> 0, title |-> 0]], articles, 1)

\* largest maxRetries a caller of the Retry Executor passes
MaxRetriesBound == 2

ErrorKinds == {"HTTP 500", "HTTP 404"}

\* error.message of an error of each kind
MessageOf(kind) ==
    CASE kind = "HTTP 500" -> <<"H","T","T","P"," ","5","0","0">>
      [] kind = "HTTP 404" -> <<"H","T","T","P"," ","4","0","4">>
      [] kind = "timed out" ->
            <<"O","p","e","r","a","t","i","o","n"," ","'","o","p","'"," ",
              "t","i","m","e","d"," ","o","u","t"," ","a","f","t","e","r"," ",
              "1","5","0","0","0","m","s">>
      [] OTHER             -> <<"U","n","k","n","o","w","n"," ","e","r","r","o","r">>

retryableStatusCodes ==
    { <<"5","0","0">>, <<"5","0","2">>, <<"5","0","3">>, <<"5","0","4">>,
      <<"4","2","9">>, <<"4","0","8">> }

nonRetryableStatusCodes ==
    { <<"4","0","0">>, <<"4","0","1">>, <<"4","0","3">>, <<"4","0","4">>, <<"4","0","9">> }

networkErrorWords ==
    { <<"n","e","t","w","o","r","k">>, <<"t","i","m","e","o","u","t">>,
      <<"e","c","o","n","n","r","e","s","e","t">>, <<"e","n","o","t","f","o","u","n","d">>,
      <<"e","t","i","m","e","d","o","u","t">> }

\* a predicate in which a non-retryable status does not override
createHttpRetryConditionNoOverride(message) ==
    LET errorMessage == toLowerCase(message)
        hasRetryableStatus == \E code \in retryableStatusCodes : includes(errorMessage, code)
        isNetworkError == \E word \in networkErrorWords : includes(errorMessage, word)
    IN  hasRetryableStatus \/ isNetworkError

\* the predicate createHttpRetryCondition() returns, applied to error.message
createHttpRetryCondition(message) ==
    LET errorMessage == toLowerCase(message)
        hasRetryableStatus == \E code \in retryableStatusCodes : includes(errorMessage, code)
        isNetworkError == \E word \in networkErrorWords : includes(errorMessage, word)
        hasNonRetryableStatus ==
            \E code \in nonRetryableStatusCodes : includes(errorMessage, code)
    IN  (hasRetryableStatus \/ isNetworkError) /\ ~hasNonRetryableStatus

\* the predicate's answer for each kind of error of this model
HttpRetryable == [kind \in ErrorKinds |-> createHttpRetryCondition(MessageOf(kind))]
RetryModes == {"withRetry", "withRetryCondition"}

\* most signals one error message of the predicate on its own carries
MaxSignals == 2

StatusText(code) == <<"s","t","a","t","u","s"," ","c","o","d","e"," ">> \o code

\* what an error handed to the predicate can carry: an HTTP status of either
\* list, a network or timeout indication as axios and Node word it, or a
\* status of neither list
HttpSignals ==
    {[class |-> "retryable", text |-> StatusText(code)] : code \in retryableStatusCodes}
    \cup {[class |-> "nonRetryable", text |-> StatusText(code)] :
              code \in nonRetryableStatusCodes}
    \cup {[class |-> "network", text |-> text] :
              text \in { <<"N","e","t","w","o","r","k"," ","E","r","r","o","r">>,
                         <<"t","i","m","e","o","u","t"," ","o","f"," ",
                           "1","0","0","0","0","m","s"," ","e","x","c","e","e","d","e","d">>,
                         <<"r","e","a","d"," ","E","C","O","N","N","R","E","S","E","T">>,
                         <<"g","e","t","a","d","d","r","i","n","f","o"," ",
                           "E","N","O","T","F","O","U","N","D">>,
                         <<"c","o","n","n","e","c","t"," ","E","T","I","M","E","D","O","U","T">> }}
    \cup {[class |-> "other", text |-> StatusText(<<"4","1","8">>)]}

RECURSIVE MessageCarrying(_)
\* error.message of an error that carries the signals, in their order
MessageCarrying(signals) ==
    IF Len(signals) = 0 THEN <<"R","e","q","u","e","s","t"," ","f","a","i","l","e","d">>
    ELSE MessageCarrying(SubSeq(signals, 1, Len(signals) - 1))
            \o <<":"," ">> \o signals[Len(signals)].text

VARIABLES
    fcall,  \* one call of FilteringService.filterArticles: its arguments, the
            \* scored copies it makes (articlesWithScore) and its result
    dcall,  \* the last call made on a DeduplicationService on its own
            \* (deduplicateArticles or clearCache): its argument, its result and
            \* the seen-sets it found
    rcall,  \* one call of RetryService.withRetry or withRetryCondition
    renv,   \* what that call's operation and predicate do: the operation
            \* rejects its first failFirst invocations with errors of `kind`
            \* and resolves afterwards; consults lists the predicate's calls
    \* ArticleCollectorService and one collectAllArticles run
    config,             \* this.config
    collectors,         \* this.collectors
    seenUrls,           \* this.deduplicationService.seenUrls
    seenTitles,         \* this.deduplicationService.seenTitles
    adapters,           \* what each source's collect() resolves with when it succeeds
    phase,              \* where collectAllArticles stands
    collectionPromises, \* the withRetry call made for each enabled collector
    articles,           \* the merged list (local `articles`)
    uniqueArticles,     \* local `uniqueArticles`
    result,             \* the CollectionResult
    qcall,              \* one call of QiitaCollector.collectArticles: where it
                        \* stands, what it has gathered and the API requests made
    \* main
    mainRun,            \* where main stands, the lists it handed to
                        \* sendArticleNotification, summary.success and the exit code
    \* the caller of one ArticleCollectorService over several runs
    history             \* the earlier collectAllArticles runs on the service, the run
                        \* and phase in which its cache was last cleared, and the
                        \* number of updateConfig calls

filterVars == <<fcall>>
dedupVars == <<dcall>>
mainVars == <<mainRun>>
collectorVars == <<qcall>>
callerVars == <<history>>
retryVars == <<rcall, renv>>
serviceVars == <<config, collectors, seenUrls, seenTitles, adapters, phase,
                 collectionPromises, articles, uniqueArticles, result>>
vars == <<fcall, dcall, rcall, renv, config, collectors, seenUrls, seenTitles, adapters,
          phase, collectionPromises, articles, uniqueArticles, result, mainRun, qcall,
          history>>

(***************************************************************************)
(* ArticleCollectorService                                                 *)
(***************************************************************************)
\* { maxRetries: 2, baseDelay: 3000 } of collectFromAllSources
CollectMaxRetries == 2

SourceNames == <<"Qiita", "Zenn", "HackerNews", "Dev.to">>

\* the collectors pushed by initializeCollectors, in its order
initializeCollectors(cfg) ==
    (IF cfg.sources.qiita THEN <<[name |-> "Qiita", enabled |-> TRUE]>> ELSE <<>>)
    \o (IF cfg.sources.zenn THEN <<[name |-> "Zenn", enabled |-> TRUE]>> ELSE <<>>)
    \o (IF cfg.sources.hackernews THEN <<[name |-> "HackerNews", enabled |-> TRUE]>> ELSE <<>>)
    \o (IF cfg.sources.devto THEN <<[name |-> "Dev.to", enabled |-> TRUE]>> ELSE <<>>)

IsEnabled(collector) == collector.enabled

getEnabledSources(cs) ==
    LET enabled == SelectSeq(cs, IsEnabled)
    IN  [i \in 1..Len(enabled) |-> enabled[i].name]

\* a loop that awaits each collector's withRetry call before it makes the
\* next: only the first call has been made
StartCollectionSequential(cs) ==
    LET enabled == SelectSeq(cs, IsEnabled)
    IN  [i \in 1..Len(enabled) |->
            [collector |-> enabled[i].name,
             call      |-> IF i = 1 THEN Enter(NewCall("withRetry", CollectMaxRetries), 1)
                           ELSE NewCall("withRetry", CollectMaxRetries)]]

\* collectFromAllSources up to its await: one withRetry call per enabled
\* collector, each already suspended in its first collect()
StartCollection(cs) ==
    LET enabled == SelectSeq(cs, IsEnabled)
    IN  [i \in 1..Len(enabled) |->
            [collector |-> enabled[i].name,
             call      |-> Enter(NewCall("withRetry", CollectMaxRetries), 1)]]

\* a wait that ends as soon as the call has been made
IsStarted(promise) == promise.call.invocations >= 1

\* a wait that only a fulfilled promise ends
IsFulfilledOnly(promise) == promise.call.pc = "returned"

\* a promise Promise.allSettled no longer waits for
IsSettled(promise) == promise.call.pc \in {"returned", "thrown"}

\* Promise.allSettled(collectionPromises) has resolved
AllSettled(promises) == \A i \in 1..Len(promises) : IsSettled(promises[i])

\* names[i] of a JavaScript array: undefined behind its end
NameAt(names, i) == IF i <= Len(names) THEN names[i] ELSE "undefined"

RECURSIVE MergeFrom(_, _, _, _)
\* the forEach of mergeCollectionResults from index i on; names is
\* getEnabledSources() as the callback reads it
MergeFrom(results, names, i, acc) ==
    IF i > Len(results) THEN acc
    ELSE IF results[i].call.pc = "returned"
         THEN MergeFrom(results, names, i + 1,
                        [acc EXCEPT !.articles = @ \o results[i].call.value])
         ELSE MergeFrom(results, names, i + 1,
                        [acc EXCEPT !.errors =
                            Append(@, [source |-> NameAt(names, i),
                                       error  |-> results[i].call.error])])

RECURSIVE MergeUntilRejected(_, _, _, _)
\* a merge that gives up at the first rejected result
MergeUntilRejected(results, names, i, acc) ==
    IF i > Len(results) THEN acc
    ELSE IF results[i].call.pc = "returned"
         THEN MergeUntilRejected(results, names, i + 1,
                        [acc EXCEPT !.articles = @ \o results[i].call.value])
         ELSE [acc EXCEPT !.errors =
                            Append(@, [source |-> NameAt(names, i),
                                       error  |-> results[i].call.error])]

MergeAborting(results, names) ==
    MergeUntilRejected(results, names, 1, [articles |-> <<>>, errors |-> <<>>])

\* a merge that takes the results in the order the calls ended in, as far
\* as the results tell: the calls that needed one invocation first
MergeInCompletionOrder(results, names) ==
    LET early(r) == r.call.invocations = 1
        late(r)  == r.call.invocations > 1
    IN  MergeFrom(SelectSeq(results, early) \o SelectSeq(results, late), names, 1,
                  [articles |-> <<>>, errors |-> <<>>])

mergeCollectionResults(results, names) ==
    MergeFrom(results, names, 1, [articles |-> <<>>, errors |-> <<>>])

\* the criteria object ArticleCollectorService.filterArticles builds
CriteriaOf(cfg) ==
    [keywords          |-> cfg.keywords,
     excludeKeywords   |-> cfg.filtering.excludeKeywords,
     minRelevanceScore |-> cfg.filtering.minRelevanceScore,
     maxArticlesPerDay |-> cfg.filtering.maxArticlesPerDay]

EmptyResult == [articles |-> <<>>, errors |-> <<>>]

\* the TypeError of reading excludeKeywords.length of undefined
TypeError == [name |-> "TypeError", attemptCount |-> 0, lastError |-> UnknownError]

\* filteringService.filterArticles throws: containsExcludeKeywords is called
\* for the first scored article and reads excludeKeywords.length
FilterThrows(unique, cfg) == Len(unique) > 0 /\ ~cfg.filtering.hasExcludeKeywords

\* the catch clause of collectAllArticles: the error is added to the result
\* that is then returned
Catch(res, error) ==
    [res EXCEPT !.errors = Append(@, [source |-> "ArticleCollectorService",
                                      error  |-> error])]

\* the configurations and adapter behaviours of this model
SourceFlags == [qiita : BOOLEAN, zenn : BOOLEAN, hackernews : BOOLEAN, devto : BOOLEAN]

\* config.filtering as loadConfig hands it over: validateConfig checks
\* minRelevanceScore and maxArticlesPerDay only, so excludeKeywords is there
\* (hasExcludeKeywords) or undefined
Filterings ==
    { [minRelevanceScore |-> 0, maxArticlesPerDay |-> MaxPerDay,
       hasExcludeKeywords |-> TRUE, excludeKeywords |-> <<>>],
      [minRelevanceScore |-> 90, maxArticlesPerDay |-> 1,
       hasExcludeKeywords |-> TRUE,
       excludeKeywords |-> << <<"S","p","o","n","s","o","r","e","d">> >>],
      [minRelevanceScore |-> 0, maxArticlesPerDay |-> MaxPerDay,
       hasExcludeKeywords |-> FALSE, excludeKeywords |-> <<>>] }

Configs ==
    [sources : SourceFlags, keywords : { << <<"A","I">>, <<"C","o","o","k">> >> },
     filtering : Filterings]

AdapterBehaviours ==
    { [s \in Range(SourceNames) |->
          CASE s = "Qiita"      -> <<a1, a6>>
            [] s = "Zenn"       -> <<a2>>
            [] s = "HackerNews" -> <<a3>>
            [] s = "Dev.to"     -> <<a4, a5>>],
      [s \in Range(SourceNames) |->
          CASE s = "Qiita"      -> <<a6>>
            [] s = "Zenn"       -> <<>>
            [] s = "HackerNews" -> <<a3>>
            [] s = "Dev.to"     -> <<a5, a4>>] }

\* the error a failing collect() of a source rejects with: a 404 for Zenn,
\* a 500 for the others
CollectErrorKind(source) == IF source = "Zenn" THEN "HTTP 404" ELSE "HTTP 500"

NoService ==
    /\ config = [sources |-> [qiita |-> FALSE, zenn |-> FALSE,
                              hackernews |-> FALSE, devto |-> FALSE],
                 keywords |-> <<>>,
                 filtering |-> [minRelevanceScore |-> 0, maxArticlesPerDay |-> 1,
                                hasExcludeKeywords |-> TRUE, excludeKeywords |-> <<>>]]
    /\ collectors = <<>>
    /\ seenUrls = {}
    /\ seenTitles = {}
    /\ adapters = [s \in Range(SourceNames) |-> <<>>]
    /\ phase = "None"
    /\ collectionPromises = <<>>
    /\ articles = <<>>
    /\ uniqueArticles = <<>>
    /\ result = EmptyResult

NoFilterCall ==
    [pc |-> "none", articles |-> <<>>,
     criteria |-> [keywords |-> <<>>, excludeKeywords |-> <<>>,
                   minRelevanceScore |-> 0, maxArticlesPerDay |-> 1],
     articlesWithScore |-> <<>>, out |-> <<>>]

NoDedupCall ==
    [pc |-> "none", articles |-> <<>>, out |-> <<>>, urlsBefore |-> {}, titlesBefore |-> {},
     duplicateCount |-> [url |-> 0, title |-> 0], keptSinceClear |-> 0]

NoQiitaCall ==
    [pc |-> "none", tags |-> <<>>, maxPages |-> 0, tagIndex |-> 0, page |-> 0,
     articles |-> <<>>, allArticles |-> <<>>, requests |-> <<>>, value |-> <<>>]

NoHistory ==
    [earlier |-> <<>>, lastClear |-> [run |-> 0, phase |-> "None"], updates |-> 0]

NoMainRun ==
    [pc |-> "none", notified |-> <<>>, notifierFailed |-> FALSE,
     success |-> FALSE, errors |-> <<>>, exitCode |-> 0]

NoRetryCall == NewCall("none", 0)
NoRetryEnv == [failFirst |-> 0, kind |-> "none", consults |-> <<>>]

(***************************************************************************)
(* filterArticles on its own                                               *)
(***************************************************************************)
FilterInit ==
    /\ fcall \in [pc : {"called"}, articles : SeqsUpTo(Articles, MaxLen),
                  criteria : Criterias, articlesWithScore : {<<>>}, out : {<<>>}]
    /\ rcall = NoRetryCall
    /\ renv = NoRetryEnv
    /\ dcall = NoDedupCall
    /\ mainRun = NoMainRun
    /\ qcall = NoQiitaCall
    /\ history = NoHistory
    /\ NoService

FilterReturn ==
    /\ fcall.pc = "called"
    /\ fcall' = [fcall EXCEPT
          !.pc = "returned",
          !.articles = ArticlesAfterFilter(fcall.articles, fcall.criteria),
          !.articlesWithScore =
              [i \in 1..Len(fcall.articles) |-> WithScore(fcall.articles[i], fcall.criteria)],
          !.out = filterArticles(fcall.articles, fcall.criteria)]
    /\ UNCHANGED <<retryVars, serviceVars, dedupVars, mainVars, collectorVars, callerVars>>

FilterNext == FilterReturn

SpecFilter == FilterInit /\ [][FilterNext]_vars

\* filterArticles on one article at a time, for the score it computes
ScoreInit ==
    /\ fcall \in [pc : {"called"}, articles : {<<a>> : a \in ScoreArticles},
                  criteria : Criterias, articlesWithScore : {<<>>}, out : {<<>>}]
    /\ rcall = NoRetryCall
    /\ renv = NoRetryEnv
    /\ dcall = NoDedupCall
    /\ mainRun = NoMainRun
    /\ qcall = NoQiitaCall
    /\ history = NoHistory
    /\ NoService

SpecScore == ScoreInit /\ [][FilterNext]_vars

(***************************************************************************)
(* The Retry Executor on its own: one call, any maxRetries up to the       *)
(* bound, an operation that fails its first failFirst invocations, and a   *)
(* predicate that may answer anything each time it is asked.               *)
(***************************************************************************)
RetryInit ==
    /\ rcall \in {NewCall(mode, m) : mode \in RetryModes, m \in 0..MaxRetriesBound}
    /\ renv \in [failFirst : 0..(MaxRetriesBound + 1), kind : ErrorKinds, consults : {<<>>}]
    /\ fcall = NoFilterCall
    /\ dcall = NoDedupCall
    /\ mainRun = NoMainRun
    /\ qcall = NoQiitaCall
    /\ history = NoHistory
    /\ NoService

\* the caller calls withRetry / withRetryCondition: the code up to the first await
RetryCall ==
    /\ rcall.pc = "idle"
    /\ rcall' = Enter(rcall, 1)
    /\ UNCHANGED <<renv, fcall, serviceVars, dedupVars, mainVars, collectorVars, callerVars>>

\* the pending invocation resolves
RetryResolve ==
    /\ rcall.pc = "awaiting"
    /\ rcall.invocations > renv.failFirst
    /\ rcall' = OnResolve(rcall, ValueOf(rcall.invocations))
    /\ UNCHANGED <<renv, fcall, serviceVars, dedupVars, mainVars, collectorVars, callerVars>>

\* the pending invocation rejects, withRetry
RetryRejectPlain ==
    /\ rcall.pc = "awaiting"
    /\ rcall.mode # "withRetryCondition"
    /\ rcall.invocations <= renv.failFirst
    /\ rcall' = OnRejectWithRetry(rcall, ErrorOf(rcall.invocations, renv.kind))
    /\ UNCHANGED <<renv, fcall, serviceVars, dedupVars, mainVars, collectorVars, callerVars>>

\* the pending invocation rejects, withRetryCondition: the predicate is asked
RetryRejectCondition ==
    /\ rcall.pc = "awaiting"
    /\ rcall.mode = "withRetryCondition"
    /\ rcall.invocations <= renv.failFirst
    /\ \E answer \in BOOLEAN :
          /\ rcall' = OnRejectWithRetryCondition(
                          rcall, ErrorOf(rcall.invocations, renv.kind), answer)
          /\ renv' = [renv EXCEPT !.consults =
                          Append(@, [error   |-> ErrorOf(rcall.invocations, renv.kind),
                                     attempt |-> rcall.attempt,
                                     answer  |-> answer])]
    /\ UNCHANGED <<fcall, serviceVars, dedupVars, mainVars, collectorVars, callerVars>>

\* the sleep timer fires
RetryWake ==
    /\ rcall.pc = "sleeping"
    /\ rcall' = OnWake(rcall)
    /\ UNCHANGED <<renv, fcall, serviceVars, dedupVars, mainVars, collectorVars, callerVars>>

RetryNext ==
    \/ RetryCall
    \/ RetryResolve
    \/ RetryRejectPlain
    \/ RetryRejectCondition
    \/ RetryWake

SpecRetry == RetryInit /\ [][RetryNext]_vars

(***************************************************************************)
(* withRetry with the delays it sleeps for: the configuration's baseDelay  *)
(* and backoffMultiplier, and the delay handed to each sleep, are kept     *)
(* next to the call.  Math.random() is any of the draws.                   *)
(***************************************************************************)
\* baseDelay and backoffMultiplier of the configurations: the 3000 ms of
\* collectFromAllSources and the default 1000 ms with the default multiplier,
\* a delay below the lower limit that grows past the upper one, and a delay
\* the jitter alone takes past the upper limit
RetryConfigs ==
    { [baseDelay |-> 3000, backoffMultiplier |-> 2],
      [baseDelay |-> 1000, backoffMultiplier |-> 2],
      [baseDelay |-> 50, backoffMultiplier |-> 700],
      [baseDelay |-> 25000, backoffMultiplier |-> 1] }
\* Math.random() * 2 - 1, in quarters: -1 can be drawn, 1 cannot
JitterDraws == -4..3

DelayInit ==
    /\ rcall \in {NewCall("withRetry", m) : m \in 0..MaxRetriesBound}
    /\ renv \in {[failFirst |-> f, kind |-> "HTTP 500", consults |-> <<>>,
                   baseDelay |-> c.baseDelay, backoffMultiplier |-> c.backoffMultiplier,
                   delays |-> <<>>] : f \in 0..(MaxRetriesBound + 1), c \in RetryConfigs}
    /\ fcall = NoFilterCall
    /\ dcall = NoDedupCall
    /\ mainRun = NoMainRun
    /\ qcall = NoQiitaCall
    /\ history = NoHistory
    /\ NoService

\* the pending invocation rejects: the catch clause computes the delay and
\* sleeps for it, or the loop ends
DelayReject ==
    /\ rcall.pc = "awaiting"
    /\ rcall.invocations <= renv.failFirst
    /\ rcall' = OnRejectWithRetry(rcall, ErrorOf(rcall.invocations, renv.kind))
    /\ \E draw \in JitterDraws :
          renv' = IF rcall.attempt <= rcall.maxRetries
                  THEN [renv EXCEPT !.delays =
                            Append(@, calculateDelay(rcall.attempt, renv, draw))]
                  ELSE renv
    /\ UNCHANGED <<fcall, serviceVars, dedupVars, mainVars, collectorVars, callerVars>>

DelayNext ==
    \/ RetryCall
    \/ RetryResolve
    \/ DelayReject
    \/ RetryWake

SpecDelay == DelayInit /\ [][DelayNext]_vars

(***************************************************************************)
(* executeWithTimeoutAndRetry on its own: withRetry around an operation    *)
(* raced against a timer.  While the call awaits the race, the timer may   *)
(* fire before the operation settles; an operation that settles first      *)
(* resolves or rejects as in withRetry.  renv.running holds the            *)
(* invocations whose timer fired first and that have not settled yet,      *)
(* renv.discarded what those that settled afterwards settled with.         *)
(***************************************************************************)
\* a wrapper that stops the operation when its timer fires
Cancelled(running, i) == running

\* the timer rejects timeoutPromise and nothing else: the promise that
\* operation() returned stays pending
StillRunning(running, i) == running \cup {i}

\* what the i-th invocation settles with
OutcomeOf(i, env) ==
    IF i <= env.failFirst
    THEN [inv |-> i, status |-> "rejected", reason |-> ErrorOf(i, env.kind)]
    ELSE [inv |-> i, status |-> "fulfilled", value |-> ValueOf(i)]

TimeoutInit ==
    /\ rcall \in {NewCall("executeWithTimeoutAndRetry", m) : m \in 0..MaxRetriesBound}
    /\ renv \in [failFirst : 0..(MaxRetriesBound + 1), kind : ErrorKinds, consults : {<<>>},
                 running : {{}}, discarded : {<<>>}]
    /\ fcall = NoFilterCall
    /\ dcall = NoDedupCall
    /\ mainRun = NoMainRun
    /\ qcall = NoQiitaCall
    /\ history = NoHistory
    /\ NoService

\* the timer of the pending attempt fires first
RetryTimeout ==
    /\ rcall.pc = "awaiting"
    /\ rcall.mode = "executeWithTimeoutAndRetry"
    /\ rcall' = OnTimeout(rcall)
    /\ renv' = [renv EXCEPT !.running = StillRunning(@, rcall.invocations)]
    /\ UNCHANGED <<fcall, serviceVars, dedupVars, mainVars, collectorVars, callerVars>>

\* an invocation whose race the timer had won settles: Promise.race has
\* settled already, so no reaction runs and the outcome goes nowhere
LateSettle ==
    /\ \E i \in renv.running :
          renv' = [renv EXCEPT !.running = @ \ {i},
                               !.discarded = Append(@, OutcomeOf(i, renv))]
    /\ UNCHANGED <<rcall, fcall, serviceVars, dedupVars, mainVars, collectorVars, callerVars>>

TimeoutNext ==
    \/ RetryCall
    \/ RetryResolve
    \/ RetryRejectPlain
    \/ RetryTimeout
    \/ LateSettle
    \/ RetryWake

SpecTimeout == TimeoutInit /\ [][TimeoutNext]_vars

(***************************************************************************)
(* The predicate of createHttpRetryCondition on its own: it is asked once, *)
(* about an error whose message carries up to MaxSignals signals.          *)
(***************************************************************************)
HttpInit ==
    /\ rcall = NoRetryCall
    /\ renv = NoRetryEnv
    /\ fcall = NoFilterCall
    /\ dcall = NoDedupCall
    /\ mainRun = NoMainRun
    /\ qcall = NoQiitaCall
    /\ history = NoHistory
    /\ NoService

HttpConsult ==
    /\ renv.consults = <<>>
    /\ \E signals \in SeqsUpTo(HttpSignals, MaxSignals) :
          renv' = [renv EXCEPT !.consults =
                      <<[error   |-> [signals |-> signals, message |-> MessageCarrying(signals)],
                         attempt |-> 1,
                         answer  |-> createHttpRetryCondition(MessageCarrying(signals))]>>]
    /\ UNCHANGED <<rcall, fcall, serviceVars, dedupVars, mainVars, collectorVars, callerVars>>

HttpNext == HttpConsult

SpecHttp == HttpInit /\ [][HttpNext]_vars

(***************************************************************************)
(* The predicate asked about the error executeWithTimeout rejects with     *)
(* when its timer fires first.                                             *)
(***************************************************************************)
DigitOf == [d \in 0..9 |-> CASE d = 0 -> "0" [] d = 1 -> "1" [] d = 2 -> "2" [] d = 3 -> "3"
                              [] d = 4 -> "4" [] d = 5 -> "5" [] d = 6 -> "6"
                              [] d = 7 -> "7" [] d = 8 -> "8" [] OTHER -> "9"]

RECURSIVE NumberToString(_)
\* String(n) of a non-negative integer
NumberToString(n) ==
    LET digit == <<DigitOf[n % 10]>>
    IN  IF n < 10 THEN digit ELSE NumberToString(n \div 10) \o digit

\* `Operation '${operationName}' timed out after ${timeoutMs}ms`
TimeoutMessage(operationName, timeoutMs) ==
    <<"O","p","e","r","a","t","i","o","n"," ","'">> \o operationName
        \o <<"'"," ","t","i","m","e","d"," ","o","u","t"," ","a","f","t","e","r"," ">>
        \o NumberToString(timeoutMs) \o <<"m","s">>

\* the operation names and time limits of this model
OperationNames ==
    { <<"o","p","e","r","a","t","i","o","n">>,
      <<"o","p">>,
      <<"f","e","t","c","h">>,
      <<"Q","i","i","t","a"," ","A","P","I">>,
      <<"H","T","T","P"," ","r","e","q","u","e","s","t">>,
      <<"t","i","m","e","o","u","t"," ","t","e","s","t">>,
      <<"n","e","t","w","o","r","k"," ","c","a","l","l">>,
      <<"j","o","b"," ","4","0","8">>,
      <<"j","o","b"," ","4","0","4">>,
      <<"p","a","g","e"," ","5","0","0","0">> }
TimeoutValues == {1, 100, 1000, 1500, 3000, 4000, 4290, 5000, 10000, 15000, 30000, 60000}

\* the timer of executeWithTimeout(operation, timeoutMs, operationName) fired
\* and the predicate is asked about the error
TimeoutConsult ==
    /\ renv.consults = <<>>
    /\ \E operationName \in OperationNames : \E timeoutMs \in TimeoutValues :
          LET message == TimeoutMessage(operationName, timeoutMs)
          IN  renv' = [renv EXCEPT !.consults =
                          <<[error   |-> [operationName |-> operationName,
                                          timeoutMs |-> timeoutMs, message |-> message],
                             attempt |-> 1,
                             answer  |-> createHttpRetryCondition(message)]>>]
    /\ UNCHANGED <<rcall, fcall, serviceVars, dedupVars, mainVars, collectorVars, callerVars>>

TimeoutConsultNext == TimeoutConsult

SpecTimeoutConsult == HttpInit /\ [][TimeoutConsultNext]_vars

(***************************************************************************)
(* A DeduplicationService on its own: any number of deduplicateArticles    *)
(* and clearCache calls on one instance, whose seen-sets are seenUrls and  *)
(* seenTitles.  Both methods are synchronous: a call is one step.          *)
(***************************************************************************)
\* getCacheStats()
getCacheStats(urls, titles) == [urls |-> Cardinality(urls), titles |-> Cardinality(titles)]

\* a clearCache that leaves the set as it is
ClearForgotten(seen) == seen

\* Set.prototype.clear
Clear(seen) == {}

DedupInit ==
    /\ seenUrls = {}
    /\ seenTitles = {}
    /\ dcall = [NoDedupCall EXCEPT !.pc = "new"]
    /\ mainRun = NoMainRun
    /\ qcall = NoQiitaCall
    /\ history = NoHistory
    /\ fcall = NoFilterCall
    /\ rcall = NoRetryCall
    /\ renv = NoRetryEnv
    /\ config = [sources |-> [qiita |-> FALSE, zenn |-> FALSE,
                              hackernews |-> FALSE, devto |-> FALSE],
                 keywords |-> <<>>,
                 filtering |-> [minRelevanceScore |-> 0, maxArticlesPerDay |-> 1,
                                hasExcludeKeywords |-> TRUE, excludeKeywords |-> <<>>]]
    /\ collectors = <<>>
    /\ adapters = [s \in Range(SourceNames) |-> <<>>]
    /\ phase = "None"
    /\ collectionPromises = <<>>
    /\ articles = <<>>
    /\ uniqueArticles = <<>>
    /\ result = EmptyResult

\* the lists handed to deduplicateArticles: up to MaxLen articles for an
\* instance whose sets are empty, one article fewer for any other
DedupInputs(urls, titles) ==
    IF urls = {} /\ titles = {}
    THEN SeqsUpTo(DedupArticles, MaxLen)
    ELSE SeqsUpTo(DedupArticles, MaxLen - 1)

\* deduplicationService.deduplicateArticles(input)
DedupCall ==
    \E input \in DedupInputs(seenUrls, seenTitles) :
        \E d \in {deduplicateArticles(input, seenUrls, seenTitles)} :
            /\ dcall' = [pc |-> "returned", articles |-> ArticlesAfterDeduplicate(input),
                         out |-> d.unique,
                         urlsBefore |-> seenUrls, titlesBefore |-> seenTitles,
                         duplicateCount |-> d.duplicateCount,
                         keptSinceClear |-> dcall.keptSinceClear + Len(d.unique)]
            /\ seenUrls' = d.seenUrls
            /\ seenTitles' = d.seenTitles
            /\ UNCHANGED <<config, collectors, adapters, phase, collectionPromises,
                           articles, uniqueArticles, result, filterVars, retryVars,
                           mainVars, collectorVars, callerVars>>

\* deduplicationService.clearCache()
DedupClearCache ==
    /\ dcall' = [pc |-> "cleared", articles |-> <<>>, out |-> <<>>,
                 urlsBefore |-> seenUrls, titlesBefore |-> seenTitles,
                 duplicateCount |-> [url |-> 0, title |-> 0], keptSinceClear |-> 0]
    /\ seenUrls' = Clear(seenUrls)
    /\ seenTitles' = Clear(seenTitles)
    /\ UNCHANGED <<config, collectors, adapters, phase, collectionPromises,
                   articles, uniqueArticles, result, filterVars, retryVars,
                   mainVars, collectorVars, callerVars>>

DedupNext ==
    \/ DedupCall
    \/ DedupClearCache

SpecDedup == DedupInit /\ [][DedupNext]_vars

(***************************************************************************)
(* normalizeUrl on its own: a fresh DeduplicationService is handed two     *)
(* articles of different titles, whose URLs it normalizes and compares.    *)
(***************************************************************************)
UrlCall ==
    /\ dcall.pc = "new"
    /\ \E u1 \in FirstUrls : \E u2 \in Urls :
          \E input \in {<<[a1 EXCEPT !.url = u1], [a7 EXCEPT !.url = u2]>>} :
              \E d \in {deduplicateArticles(input, seenUrls, seenTitles)} :
                  /\ dcall' = [pc |-> "returned",
                               articles |-> ArticlesAfterDeduplicate(input),
                               out |-> d.unique,
                               urlsBefore |-> seenUrls, titlesBefore |-> seenTitles,
                               duplicateCount |-> d.duplicateCount,
                               keptSinceClear |-> dcall.keptSinceClear + Len(d.unique)]
                  /\ seenUrls' = d.seenUrls
                  /\ seenTitles' = d.seenTitles
    /\ UNCHANGED <<config, collectors, adapters, phase, collectionPromises,
                   articles, uniqueArticles, result, filterVars, retryVars,
                   mainVars, collectorVars, callerVars>>

UrlNext == UrlCall

SpecUrl == DedupInit /\ [][UrlNext]_vars

(***************************************************************************)
(* One ArticleCollectorService and its collectAllArticles run.  phase is   *)
(* the statement the run stands at: "Idle" before the call, "Collecting"   *)
(* at the await of Promise.allSettled, "Merging", "Deduplicating" and      *)
(* "Filtering" before steps 2, 3 and 4, and "Done" after the return.       *)
(***************************************************************************)
\* new ArticleCollectorService(config)
NewService ==
    /\ config \in Configs
    /\ collectors = initializeCollectors(config)
    /\ seenUrls = {}
    /\ seenTitles = {}
    /\ adapters \in AdapterBehaviours
    /\ phase = "Idle"
    /\ collectionPromises = <<>>
    /\ articles = <<>>
    /\ uniqueArticles = <<>>
    /\ result = EmptyResult
    /\ fcall = NoFilterCall
    /\ rcall = NoRetryCall
    /\ renv = NoRetryEnv
    /\ dcall = NoDedupCall

Init ==
    /\ NewService
    /\ mainRun = NoMainRun
    /\ qcall = NoQiitaCall
    /\ history = NoHistory

\* collectAllArticles is called: lines 36-47, collectFromAllSources to its await
CollectAllArticles ==
    /\ phase = "Idle"
    /\ phase' = "Collecting"
    /\ result' = EmptyResult
    /\ collectionPromises' = StartCollection(collectors)
    /\ UNCHANGED <<config, collectors, seenUrls, seenTitles, adapters, articles,
                   uniqueArticles, filterVars, retryVars, dedupVars, mainVars, collectorVars,
                   callerVars>>

\* the pending collect() of the i-th promise resolves with its articles
AdapterResolve(i) ==
    /\ phase = "Collecting"
    /\ i \in 1..Len(collectionPromises)
    /\ collectionPromises[i].call.pc = "awaiting"
    /\ collectionPromises' =
          [collectionPromises EXCEPT ![i].call =
              OnResolve(@, adapters[collectionPromises[i].collector])]
    /\ UNCHANGED <<config, collectors, seenUrls, seenTitles, adapters, phase, articles,
                   uniqueArticles, result, filterVars, retryVars, dedupVars,
                   mainVars, collectorVars, callerVars>>

\* the pending collect() of the i-th promise rejects
AdapterReject(i) ==
    /\ phase = "Collecting"
    /\ i \in 1..Len(collectionPromises)
    /\ collectionPromises[i].call.pc = "awaiting"
    /\ collectionPromises' =
          [collectionPromises EXCEPT ![i].call =
              OnRejectWithRetry(@, ErrorOf(@.invocations,
                                CollectErrorKind(collectionPromises[i].collector)))]
    /\ UNCHANGED <<config, collectors, seenUrls, seenTitles, adapters, phase, articles,
                   uniqueArticles, result, filterVars, retryVars, dedupVars,
                   mainVars, collectorVars, callerVars>>

\* the retry sleep of the i-th promise ends
AdapterWake(i) ==
    /\ phase = "Collecting"
    /\ i \in 1..Len(collectionPromises)
    /\ collectionPromises[i].call.pc = "sleeping"
    /\ collectionPromises' = [collectionPromises EXCEPT ![i].call = OnWake(@)]
    /\ UNCHANGED <<config, collectors, seenUrls, seenTitles, adapters, phase, articles,
                   uniqueArticles, result, filterVars, retryVars, dedupVars,
                   mainVars, collectorVars, callerVars>>

\* Promise.allSettled resolves; collectFromAllSources returns
Collected ==
    /\ phase = "Collecting"
    /\ AllSettled(collectionPromises)
    /\ phase' = "Merging"
    /\ UNCHANGED <<config, collectors, seenUrls, seenTitles, adapters,
                   collectionPromises, articles, uniqueArticles, result,
                   filterVars, retryVars, dedupVars, mainVars, collectorVars, callerVars>>

\* a step 2 that throws when nothing was collected, into the catch clause
MergeThrowingOnEmpty ==
    /\ phase = "Merging"
    /\ LET merged == mergeCollectionResults(collectionPromises, getEnabledSources(collectors))
           reported == [result EXCEPT !.errors = merged.errors]
       IN  /\ articles' = merged.articles
           /\ result' = IF Len(merged.articles) = 0
                        THEN Catch(reported, [TypeError EXCEPT !.name = "Error"])
                        ELSE reported
           /\ phase' = IF Len(merged.articles) = 0 THEN "Done" ELSE "Deduplicating"
    /\ UNCHANGED <<config, collectors, seenUrls, seenTitles, adapters,
                   collectionPromises, uniqueArticles, filterVars, retryVars, dedupVars,
                   mainVars, collectorVars, callerVars>>

\* step 2, lines 50-57: merge, then return early when nothing was collected
Merge ==
    /\ phase = "Merging"
    /\ LET merged == mergeCollectionResults(collectionPromises, getEnabledSources(collectors))
       IN  /\ articles' = merged.articles
           /\ result' = [result EXCEPT !.errors = merged.errors]
           /\ phase' = IF Len(merged.articles) = 0 THEN "Done" ELSE "Deduplicating"
    /\ UNCHANGED <<config, collectors, seenUrls, seenTitles, adapters,
                   collectionPromises, uniqueArticles, filterVars, retryVars, dedupVars,
                   mainVars, collectorVars, callerVars>>

\* step 3, line 62
Deduplicate ==
    /\ phase = "Deduplicating"
    /\ LET d == deduplicateArticles(articles, seenUrls, seenTitles)
       IN  /\ uniqueArticles' = d.unique
           /\ seenUrls' = d.seenUrls
           /\ seenTitles' = d.seenTitles
    /\ articles' = ArticlesAfterDeduplicate(articles)
    /\ phase' = "Filtering"
    /\ UNCHANGED <<config, collectors, adapters, collectionPromises, result,
                   filterVars, retryVars, dedupVars, mainVars, collectorVars, callerVars>>

\* step 4 and the return, lines 66-76, or the catch clause, lines 77-88
Filter ==
    /\ phase = "Filtering"
    /\ result' = IF FilterThrows(uniqueArticles, config)
                 THEN Catch(result, TypeError)
                 ELSE [result EXCEPT !.articles =
                          filterArticles(uniqueArticles, CriteriaOf(config))]
    /\ uniqueArticles' = ArticlesAfterFilter(uniqueArticles, CriteriaOf(config))
    /\ phase' = "Done"
    /\ UNCHANGED <<config, collectors, seenUrls, seenTitles, adapters,
                   collectionPromises, articles, filterVars, retryVars, dedupVars,
                   mainVars, collectorVars, callerVars>>

Next ==
    \/ CollectAllArticles
    \/ \E i \in 1..Len(collectionPromises) : AdapterResolve(i)
    \/ \E i \in 1..Len(collectionPromises) : AdapterReject(i)
    \/ \E i \in 1..Len(collectionPromises) : AdapterWake(i)
    \/ Collected
    \/ Merge
    \/ Deduplicate
    \/ Filter

Spec == Init /\ [][Next]_vars

(***************************************************************************)
(* One ArticleCollectorService over several collectAllArticles runs, one   *)
(* after the other, with clearCache and updateConfig calls from outside.   *)
(* Steps 2 to 4 of a run are synchronous, so an outside call comes before  *)
(* a run, while the run awaits its adapters, or after it returned.         *)
(***************************************************************************)
\* most collectAllArticles runs on one service
MaxRuns == 2
\* most updateConfig calls on one service
MaxUpdates == 1

\* the configurations of this service: Zenn and Dev.to are never enabled
ServiceConfigs == {cfg \in Configs : ~cfg.sources.zenn /\ ~cfg.sources.devto}

ServiceInit ==
    /\ NewService
    /\ config \in ServiceConfigs
    /\ mainRun = NoMainRun
    /\ qcall = NoQiitaCall
    /\ history = NoHistory

\* what is kept of the run that has returned
RunRecord ==
    [promises |-> collectionPromises, articles |-> articles,
     uniqueArticles |-> uniqueArticles, result |-> result]

\* a collectAllArticles that starts with an empty cache
CollectAgainClearing ==
    /\ phase = "Done"
    /\ Len(history.earlier) + 1 < MaxRuns
    /\ history' = [history EXCEPT !.earlier = Append(@, RunRecord)]
    /\ phase' = "Collecting"
    /\ result' = EmptyResult
    /\ collectionPromises' = StartCollection(collectors)
    /\ articles' = <<>>
    /\ uniqueArticles' = <<>>
    /\ seenUrls' = Clear(seenUrls)
    /\ seenTitles' = Clear(seenTitles)
    /\ UNCHANGED <<config, collectors, adapters,
                   filterVars, retryVars, dedupVars, mainVars, collectorVars>>

\* collectAllArticles is called again after a run returned
CollectAgain ==
    /\ phase = "Done"
    /\ Len(history.earlier) + 1 < MaxRuns
    /\ history' = [history EXCEPT !.earlier = Append(@, RunRecord)]
    /\ phase' = "Collecting"
    /\ result' = EmptyResult
    /\ collectionPromises' = StartCollection(collectors)
    /\ articles' = <<>>
    /\ uniqueArticles' = <<>>
    /\ UNCHANGED <<config, collectors, seenUrls, seenTitles, adapters,
                   filterVars, retryVars, dedupVars, mainVars, collectorVars>>

OutsideOfSteps == phase \in {"Idle", "Collecting", "Done"}

\* the run, counted from 1, and the phase the service is in
Now == [run |-> Len(history.earlier) + 1, phase |-> phase]

\* ArticleCollectorService.clearCache()
ClearCache ==
    /\ OutsideOfSteps
    /\ seenUrls' = Clear(seenUrls)
    /\ seenTitles' = Clear(seenTitles)
    /\ history' = [history EXCEPT !.lastClear = Now]
    /\ UNCHANGED <<config, collectors, adapters, phase, collectionPromises, articles,
                   uniqueArticles, result, filterVars, retryVars, dedupVars,
                   mainVars, collectorVars>>

\* updateConfig(newConfig)
UpdateConfig ==
    /\ OutsideOfSteps
    /\ history.updates < MaxUpdates
    /\ \E newConfig \in ServiceConfigs :
          /\ config' = newConfig
          /\ collectors' = initializeCollectors(newConfig)
    /\ seenUrls' = Clear(seenUrls)
    /\ seenTitles' = Clear(seenTitles)
    /\ history' = [history EXCEPT !.lastClear = Now, !.updates = @ + 1]
    /\ UNCHANGED <<adapters, phase, collectionPromises, articles,
                   uniqueArticles, result, filterVars, retryVars, dedupVars,
                   mainVars, collectorVars>>

ServiceNext ==
    \/ CollectAllArticles
    \/ \E i \in 1..Len(collectionPromises) : AdapterResolve(i)
    \/ \E i \in 1..Len(collectionPromises) : AdapterReject(i)
    \/ \E i \in 1..Len(collectionPromises) : AdapterWake(i)
    \/ Collected
    \/ Merge
    \/ Deduplicate
    \/ Filter
    \/ CollectAgain
    \/ ClearCache
    \/ UpdateConfig

SpecService == ServiceInit /\ [][ServiceNext]_vars

(***************************************************************************)
(* QiitaCollector.collectArticles(tags) with `since` undefined.  The call  *)
(* is suspended at an API request ("requesting"), at the sleep between two *)
(* pages ("pageSleep") or at the sleep after a tag ("tagSleep"), or it has *)
(* ended ("resolved", "rejected").  The API answers a request with a full  *)
(* page, a shorter page, an empty page, or it fails.  fetchArticlesByTag   *)
(* never rejects, so withRetryCondition returns what its first attempt     *)
(* resolves with.                                                          *)
(***************************************************************************)
\* most tags handed to collectArticles
MaxTags == 2
\* largest config.maxPages
MaxPages == 2
\* config.itemsPerPage of the model's collector
ItemsPerPage == 2

QiitaTags == {"AI", "ML"}
ApiOutcomes == {"full", "short", "empty", "fail"}

\* transformToArticle of the k-th item of a page: the first item of a page
\* carries every tag, so the API returns it for each of them
QiitaItem(tag, page, k) ==
    [id |-> <<"qiita", page, k>>, source |-> "qiita",
     url |-> IF k = 1 THEN <<"any", page, k>> ELSE <<tag, page, k>>,
     relevanceScore |-> 0]

\* response.data of an answered request, transformed
PageArticles(tag, page, outcome) ==
    CASE outcome = "full"  -> [k \in 1..ItemsPerPage |-> QiitaItem(tag, page, k)]
      [] outcome = "short" -> [k \in 1..(ItemsPerPage - 1) |-> QiitaItem(tag, page, k)]
      [] OTHER             -> <<>>

RECURSIVE removeDuplicatesByUrl(_)
\* filter keeping the first article of each url
removeDuplicatesByUrl(as) ==
    IF Len(as) = 0 THEN <<>>
    ELSE LET front == removeDuplicatesByUrl(SubSeq(as, 1, Len(as) - 1))
             last  == as[Len(as)]
         IN  IF \E i \in 1..Len(front) : front[i].url = last.url
             THEN front ELSE Append(front, last)

\* callQiitaAPI for the page the call stands at
Request(q) == [q EXCEPT !.pc = "requesting"]

\* fetchArticlesByTag returns, withRetryCondition returns, the articles are
\* pushed to allArticles: to the await of sleep(200)
EndFetch(q) ==
    [q EXCEPT !.allArticles = @ \o q.articles, !.articles = <<>>, !.pc = "tagSleep"]

\* a catch clause that throws the error on
OnPageFailureRethrown(q) == [q EXCEPT !.pc = "rejected"]

\* the catch clause of the page loop: warn and break
OnPageFailure(q) == EndFetch(q)

\* the page loop after an answered request
OnPageResponse(q, data) ==
    IF Len(data) = 0 THEN EndFetch(q)
    ELSE LET pushed == [q EXCEPT !.articles = @ \o data]
         IN  IF Len(data) < ItemsPerPage THEN EndFetch(pushed)
             ELSE IF q.page < q.maxPages THEN [pushed EXCEPT !.pc = "pageSleep"]
             ELSE EndFetch(pushed)

QiitaInit ==
    /\ qcall \in {[NoQiitaCall EXCEPT !.pc = "idle", !.tags = tags, !.maxPages = m] :
                      tags \in SeqsUpTo(QiitaTags, MaxTags), m \in 1..MaxPages}
    /\ mainRun = NoMainRun
    /\ history = NoHistory
    /\ fcall = NoFilterCall
    /\ rcall = NoRetryCall
    /\ renv = NoRetryEnv
    /\ dcall = NoDedupCall
    /\ NoService

\* collectArticles is called: to the first request, or to the return when
\* there is no tag
QiitaCall ==
    /\ qcall.pc = "idle"
    /\ qcall' = IF Len(qcall.tags) = 0
                THEN [qcall EXCEPT !.pc = "resolved", !.value = <<>>]
                ELSE Request([qcall EXCEPT !.tagIndex = 1, !.page = 1])
    /\ UNCHANGED <<serviceVars, filterVars, retryVars, dedupVars, mainVars, callerVars>>

\* the pending request is answered or fails
QiitaRequestSettles ==
    /\ qcall.pc = "requesting"
    /\ \E outcome \in ApiOutcomes :
          LET logged == [qcall EXCEPT !.requests =
                            Append(@, [tagIndex |-> qcall.tagIndex, page |-> qcall.page,
                                       outcome |-> outcome])]
          IN  qcall' = IF outcome = "fail"
                       THEN OnPageFailure(logged)
                       ELSE OnPageResponse(logged,
                               PageArticles(qcall.tags[qcall.tagIndex], qcall.page, outcome))
    /\ UNCHANGED <<serviceVars, filterVars, retryVars, dedupVars, mainVars, callerVars>>

\* sleep(100) is over: page++
QiitaPageWake ==
    /\ qcall.pc = "pageSleep"
    /\ qcall' = Request([qcall EXCEPT !.page = @ + 1])
    /\ UNCHANGED <<serviceVars, filterVars, retryVars, dedupVars, mainVars, callerVars>>

\* sleep(200) is over: the next tag, or removeDuplicatesByUrl and the return
QiitaTagWake ==
    /\ qcall.pc = "tagSleep"
    /\ qcall' = IF qcall.tagIndex < Len(qcall.tags)
                THEN Request([qcall EXCEPT !.tagIndex = @ + 1, !.page = 1])
                ELSE [qcall EXCEPT !.pc = "resolved",
                                   !.value = removeDuplicatesByUrl(qcall.allArticles)]
    /\ UNCHANGED <<serviceVars, filterVars, retryVars, dedupVars, mainVars, callerVars>>

QiitaNext ==
    \/ QiitaCall
    \/ QiitaRequestSettles
    \/ QiitaPageWake
    \/ QiitaTagWake

SpecQiita == QiitaInit /\ [][QiitaNext]_vars

(***************************************************************************)
(* main from step 3 on: it has loaded a configuration validateConfig       *)
(* accepts (at least one source enabled) and built the services, awaits    *)
(* collectAllArticles, hands the result's articles to                      *)
(* sendArticleNotification and awaits it.  The notifier resolves or        *)
(* rejects; a rejection is caught by main's catch clause.                  *)
(***************************************************************************)
MainInit ==
    /\ NewService
    /\ Len(collectors) > 0
    /\ mainRun = [NoMainRun EXCEPT !.pc = "collecting"]
    /\ qcall = NoQiitaCall
    /\ history = NoHistory

\* collectAllArticles has returned: steps 3 (rest) and 4 to the await of
\* sendArticleNotification, lines 54-88
MainNotify ==
    /\ mainRun.pc = "collecting"
    /\ phase = "Done"
    /\ mainRun' = [mainRun EXCEPT
          !.pc = "notifying",
          !.errors = [i \in 1..Len(result.errors) |-> result.errors[i]],
          !.notified = Append(@, IF Len(result.articles) > 0 THEN result.articles ELSE <<>>)]
    /\ UNCHANGED <<serviceVars, filterVars, retryVars, dedupVars, collectorVars, callerVars>>

\* sendArticleNotification resolves: step 5, lines 90-103
NotifierResolve ==
    /\ mainRun.pc = "notifying"
    /\ mainRun' = [mainRun EXCEPT !.pc = "completed", !.success = TRUE]
    /\ UNCHANGED <<serviceVars, filterVars, retryVars, dedupVars, collectorVars, callerVars>>

\* sendArticleNotification rejects: the catch clause to the await of
\* sendErrorNotification, lines 104-116
NotifierReject ==
    /\ mainRun.pc = "notifying"
    /\ mainRun' = [mainRun EXCEPT
          !.pc = "errorNotifying",
          !.notifierFailed = TRUE,
          !.success = FALSE,
          !.errors = Append(@, [source |-> "Fatal", error |-> "notifier"])]
    /\ UNCHANGED <<serviceVars, filterVars, retryVars, dedupVars, collectorVars, callerVars>>

\* sendErrorNotification has settled (it catches its own failures):
\* process.exit(1), line 123
MainExit ==
    /\ mainRun.pc = "errorNotifying"
    /\ mainRun' = [mainRun EXCEPT !.pc = "exited", !.exitCode = 1]
    /\ UNCHANGED <<serviceVars, filterVars, retryVars, dedupVars, collectorVars, callerVars>>

MainNext ==
    \/ CollectAllArticles
    \/ \E i \in 1..Len(collectionPromises) : AdapterResolve(i)
    \/ \E i \in 1..Len(collectionPromises) : AdapterReject(i)
    \/ \E i \in 1..Len(collectionPromises) : AdapterWake(i)
    \/ Collected
    \/ Merge
    \/ Deduplicate
    \/ Filter
    \/ MainNotify
    \/ NotifierResolve
    \/ NotifierReject
    \/ MainExit

SpecMain == MainInit /\ [][MainNext]_vars

\* The run with its scheduling: as long as something can run (a pending
\* collect() that settles, a sleep timer that fires, the code behind an await
\* that is over), something does.
Fairness == WF_vars(Next)

SpecLive == Init /\ [][Next]_vars /\ Fairness

(***************************************************************************)
(* Properties of collectAllArticles                                        *)
(***************************************************************************)
\* C1: no two articles of a CollectionResult have the same normalized URL,
\* and no two have the same normalized title.
C1_ResultHasNoDuplicates ==
    \A i \in 1..Len(result.articles) : \A j \in 1..Len(result.articles) :
        i < j =>
            /\ normalizeUrl(result.articles[i].url) # normalizeUrl(result.articles[j].url)
            /\ normalizeTitle(result.articles[i].title)
                  # normalizeTitle(result.articles[j].title)

\* adapters returned a URL duplicate and a title duplicate of a returned article
C1_Witness ==
    /\ phase = "Done"
    /\ Len(result.articles) >= 2
    /\ \E i \in 1..Len(articles) : \E j \in 1..Len(articles) : \E k \in 1..Len(articles) :
          /\ i < j /\ i < k
          /\ articles[i].url # articles[j].url
          /\ normalizeUrl(articles[i].url) = normalizeUrl(articles[j].url)
          /\ articles[i].title # articles[k].title
          /\ normalizeTitle(articles[i].title) = normalizeTitle(articles[k].title)
          /\ \E r \in 1..Len(result.articles) : result.articles[r].id = articles[i].id

\* the entries of an error list that name a collector
AdapterErrors(errors) ==
    LET named(e) == e.source \in Range(SourceNames) IN SelectSeq(errors, named)

Rejected == {i \in 1..Len(collectionPromises) : collectionPromises[i].call.pc = "thrown"}
Fulfilled == {i \in 1..Len(collectionPromises) : collectionPromises[i].call.pc = "returned"}

\* C9: once the results are merged, result.errors holds exactly one
\* CollectionError per failed adapter, carrying that adapter's name, every
\* article of every successful adapter is in the merged list, and the run
\* goes on: the merged list is what is deduplicated and filtered.
C9_PartialFailureTolerated ==
    /\ phase \in {"Deduplicating", "Filtering", "Done"} =>
          /\ Len(AdapterErrors(result.errors)) = Cardinality(Rejected)
          /\ \A i \in Rejected :
                Cardinality({k \in 1..Len(result.errors) :
                    result.errors[k].source = collectionPromises[i].collector}) = 1
          /\ \A i \in Fulfilled : \A k \in 1..Len(collectionPromises[i].call.value) :
                collectionPromises[i].call.value[k] \in Range(articles)
    /\ (phase = "Done" /\ articles # <<>>) =>
          /\ \A k \in 1..Len(articles) :
                \/ normalizeUrl(articles[k].url) \in seenUrls
                \/ normalizeTitle(articles[k].title) \in seenTitles
          /\ IsSubsequence(uniqueArticles, articles)
          /\ \A r \in 1..Len(result.articles) :
                [result.articles[r] EXCEPT !.relevanceScore = 0] \in Range(uniqueArticles)

\* a failed adapter in front of a successful one, and one behind it
C9_Witness ==
    /\ phase = "Done"
    /\ Len(collectionPromises) = 4
    /\ Rejected = {1, 3}
    /\ Len(result.articles) > 0
    /\ result.errors[1].source = "Qiita"
    /\ result.errors[2].source = "HackerNews"

\* C10: every collectAllArticles run whose adapter invocations all settle
\* reaches its return: it does not stay in Collecting, Merging, Deduplicating
\* or Filtering.
C10_RunTerminates == (phase # "Idle") ~> (phase = "Done")

\* a run that ended after an adapter used all its attempts and another
\* succeeded on a retry
C10_Witness ==
    /\ phase = "Done"
    /\ \E i \in Rejected : collectionPromises[i].call.invocations = CollectMaxRetries + 1
    /\ \E i \in Fulfilled : collectionPromises[i].call.invocations > 1
    /\ Len(result.articles) > 0

(***************************************************************************)
(* Properties of filterArticles and calculateRelevanceScore                *)
(***************************************************************************)
\* C2: every score calculateRelevanceScore assigns, and so every
\* relevanceScore filterArticles returns, lies in [0.0, 1.0] (0..300 in units
\* of 1/300), for every article and every custom keyword list.
C2_ScoreInUnitInterval ==
    /\ \A i \in 1..Len(fcall.articlesWithScore) :
          /\ fcall.articlesWithScore[i].relevanceScore >= 0
          /\ fcall.articlesWithScore[i].relevanceScore <= 300
    /\ \A i \in 1..Len(fcall.out) :
          /\ fcall.out[i].relevanceScore >= 0
          /\ fcall.out[i].relevanceScore <= 300

\* an article whose unclamped sum exceeds 3.0 was scored, and returned with 1.0
C2_Witness ==
    /\ fcall.pc = "returned"
    /\ \E i \in 1..Len(fcall.articles) :
          /\ RawScore(fcall.articles[i], fcall.criteria.keywords)
               + TitleBonus(fcall.articles[i]) + TagBonus(fcall.articles[i]) > 300
          /\ fcall.articlesWithScore[i].relevanceScore = 300
          /\ \E j \in 1..Len(fcall.out) : fcall.out[j] = fcall.articlesWithScore[i]

\* C3: filterArticles never returns more than criteria.maxArticlesPerDay
\* articles.
C3_AtMostMaxArticlesPerDay ==
    fcall.pc = "returned" => Len(fcall.out) <= fcall.criteria.maxArticlesPerDay

\* more articles pass exclusion and threshold than the limit allows
C3_Witness ==
    /\ fcall.pc = "returned"
    /\ Len(Relevant(NotExcluded(fcall.articlesWithScore, fcall.criteria), fcall.criteria))
          > fcall.criteria.maxArticlesPerDay
    /\ Len(fcall.out) = fcall.criteria.maxArticlesPerDay

WithScoreOf(s, v) == LET has(a) == a.relevanceScore = v IN SelectSeq(s, has)

\* C4: the returned sequence is sorted by relevanceScore, highest first, and
\* the returned articles of one score are in the order they had in the input.
C4_SortedDescendingStable ==
    fcall.pc = "returned" =>
        /\ \A i \in 1..Len(fcall.out) : \A j \in 1..Len(fcall.out) :
              i < j => fcall.out[i].relevanceScore >= fcall.out[j].relevanceScore
        /\ \A i \in 1..Len(fcall.out) :
              IsSubsequence(WithScoreOf(fcall.out, fcall.out[i].relevanceScore),
                            WithScoreOf(fcall.articlesWithScore, fcall.out[i].relevanceScore))

\* the sort had to move an article, and two different articles of one score
\* are returned
C4_Witness ==
    /\ fcall.pc = "returned"
    /\ \E i \in 1..Len(fcall.articlesWithScore) : \E j \in 1..Len(fcall.articlesWithScore) :
          /\ i < j
          /\ fcall.articlesWithScore[i].relevanceScore < fcall.articlesWithScore[j].relevanceScore
          /\ fcall.articlesWithScore[i].relevanceScore >= fcall.criteria.minRelevanceScore
    /\ Len(fcall.out) >= 2
    /\ fcall.out[1] # fcall.out[2]
    /\ fcall.out[1].relevanceScore = fcall.out[2].relevanceScore

\* the scored article at position i of the call has a text without any of
\* the call's exclude keywords
PassesExclusion(i) ==
    \A k \in 1..Len(fcall.criteria.excludeKeywords) :
        ~includes(ArticleText(fcall.articles[i]), toLowerCase(fcall.criteria.excludeKeywords[k]))

\* C17: every article filterArticles returns scores at least
\* criteria.minRelevanceScore (so one scoring below it is never returned), and
\* an article that passes the exclusion and scores the minimum or more is
\* returned unless the daily limit is already filled.
C17_ThresholdIsInclusive ==
    fcall.pc = "returned" =>
        /\ \A j \in 1..Len(fcall.out) :
              fcall.out[j].relevanceScore >= fcall.criteria.minRelevanceScore
        /\ \A i \in 1..Len(fcall.articlesWithScore) :
              (/\ fcall.articlesWithScore[i].relevanceScore >= fcall.criteria.minRelevanceScore
               /\ PassesExclusion(i))
              => \/ \E j \in 1..Len(fcall.out) : fcall.out[j] = fcall.articlesWithScore[i]
                 \/ Len(fcall.out) = fcall.criteria.maxArticlesPerDay

\* under minRelevanceScore 0.5 an article scoring exactly 0.5 is returned and
\* one of raw score 0.5 without bonuses, scoring 0.5 / 3, is not
C17_Witness ==
    /\ fcall.pc = "returned"
    /\ fcall.criteria.minRelevanceScore = 150
    /\ \E j \in 1..Len(fcall.out) : fcall.out[j].relevanceScore = 150
    /\ \E i \in 1..Len(fcall.articlesWithScore) :
          /\ fcall.articlesWithScore[i].relevanceScore = 50
          /\ PassesExclusion(i)
          /\ \A j \in 1..Len(fcall.out) : fcall.out[j] # fcall.articlesWithScore[i]

\* the lowercase corpus of an article: title, excerpt and tags
LowerCorpus(article) ==
    toLowerCase(article.title \o <<" ">>
                \o (IF article.hasExcerpt THEN article.excerpt ELSE <<>>)
                \o <<" ">> \o join(article.tags, <<" ">>))

\* C18: no article filterArticles returns has a lowercase corpus that
\* contains the lowercase form of an exclude keyword, whatever its score, and
\* with an empty exclude list every article that reaches the threshold is
\* returned unless the daily limit is filled.
C18_NoReturnedArticleHasExcludeKeyword ==
    fcall.pc = "returned" =>
        /\ \A j \in 1..Len(fcall.out) :
              \A k \in 1..Len(fcall.criteria.excludeKeywords) :
                  ~includes(LowerCorpus(fcall.out[j]),
                            toLowerCase(fcall.criteria.excludeKeywords[k]))
        /\ Len(fcall.criteria.excludeKeywords) = 0 =>
              \A i \in 1..Len(fcall.articlesWithScore) :
                  fcall.articlesWithScore[i].relevanceScore >= fcall.criteria.minRelevanceScore
                  => \/ \E j \in 1..Len(fcall.out) : fcall.out[j] = fcall.articlesWithScore[i]
                     \/ Len(fcall.out) = fcall.criteria.maxArticlesPerDay

\* an article of score 1.0 whose title has the keyword in another case is
\* left out although the result has room for it
C18_Witness ==
    /\ fcall.pc = "returned"
    /\ Len(fcall.out) < fcall.criteria.maxArticlesPerDay
    /\ \E i \in 1..Len(fcall.articlesWithScore) :
          /\ fcall.articlesWithScore[i].relevanceScore = 300
          /\ \E k \in 1..Len(fcall.criteria.excludeKeywords) :
                /\ ~includes(LowerCorpus(fcall.articles[i]), fcall.criteria.excludeKeywords[k])
                /\ includes(LowerCorpus(fcall.articles[i]),
                            toLowerCase(fcall.criteria.excludeKeywords[k]))
          /\ \A j \in 1..Len(fcall.out) : fcall.out[j] # fcall.articlesWithScore[i]

\* the positions of the scored list that passed exclusion and threshold
PassedPositions ==
    {i \in 1..Len(fcall.articlesWithScore) :
        /\ PassesExclusion(i)
        /\ fcall.articlesWithScore[i].relevanceScore >= fcall.criteria.minRelevanceScore}

\* the place position i takes among the passed positions, ordered by score,
\* highest first, and by position among equal scores
RankOf(i) ==
    1 + Cardinality({k \in PassedPositions :
            \/ fcall.articlesWithScore[k].relevanceScore
                    > fcall.articlesWithScore[i].relevanceScore
            \/ /\ fcall.articlesWithScore[k].relevanceScore
                    = fcall.articlesWithScore[i].relevanceScore
               /\ k < i})

\* C31: the result holds, in rank order, the passed articles of rank 1 to
\* maxArticlesPerDay (rank: by score, highest first, input order among equal
\* scores); so no passed article left out scores strictly higher than a
\* returned one, and when at most maxArticlesPerDay articles pass, all of
\* them are returned.
C31_LimitKeepsBestRanked ==
    fcall.pc = "returned" =>
        /\ Len(fcall.out) = IF Cardinality(PassedPositions) < fcall.criteria.maxArticlesPerDay
                            THEN Cardinality(PassedPositions)
                            ELSE fcall.criteria.maxArticlesPerDay
        /\ \A i \in PassedPositions :
              RankOf(i) <= fcall.criteria.maxArticlesPerDay
                  => fcall.out[RankOf(i)] = fcall.articlesWithScore[i]
        /\ \A i \in PassedPositions :
              RankOf(i) > fcall.criteria.maxArticlesPerDay
                  => \A j \in 1..Len(fcall.out) :
                        fcall.out[j].relevanceScore
                            >= fcall.articlesWithScore[i].relevanceScore
        /\ Cardinality(PassedPositions) <= fcall.criteria.maxArticlesPerDay
              => \A i \in PassedPositions :
                    \E j \in 1..Len(fcall.out) : fcall.out[j] = fcall.articlesWithScore[i]

\* the limit cut off an article of a strictly lower score that stood before
\* a returned one in the input, and one of the score of a returned one
C31_Witness ==
    /\ fcall.pc = "returned"
    /\ Len(fcall.out) = fcall.criteria.maxArticlesPerDay
    /\ \E i, k \in PassedPositions :
          /\ i < k
          /\ RankOf(i) > fcall.criteria.maxArticlesPerDay
          /\ RankOf(k) <= fcall.criteria.maxArticlesPerDay
          /\ fcall.articlesWithScore[i].relevanceScore
                < fcall.articlesWithScore[k].relevanceScore
    /\ \E i, k \in PassedPositions :
          /\ RankOf(i) > fcall.criteria.maxArticlesPerDay
          /\ RankOf(k) <= fcall.criteria.maxArticlesPerDay
          /\ fcall.articlesWithScore[i].relevanceScore
                = fcall.articlesWithScore[k].relevanceScore

RECURSIVE SumOver(_, _)
\* the sum of f over the finite set S
SumOver(f(_), S) ==
    IF S = {} THEN 0
    ELSE LET x == CHOOSE y \in S : TRUE IN f(x) + SumOver(f, S \ {x})

\* the table keywords (by position) whose lowercase form is in text
TableKeywordsIn(text) ==
    {i \in 1..Len(AI_KEYWORDS) : includes(toLowerCase(text), toLowerCase(AI_KEYWORDS[i].keyword))}

\* the claimed score of an article, in units of 1/300 (weights in 1/100)
ClaimedScore(article, customKeywords) ==
    LET corpus == article.title \o <<" ">>
                    \o (IF article.hasExcerpt THEN article.excerpt ELSE <<>>)
                    \o <<" ">> \o join(article.tags, <<" ">>)
        weight(i) == AI_KEYWORDS[i].weight
        customFound == {k \in 1..Len(customKeywords) :
                           includes(toLowerCase(corpus), toLowerCase(customKeywords[k]))}
        rawScore == SumOver(weight, TableKeywordsIn(corpus)) + 50 * Cardinality(customFound)
        titleBonus == (3 * SumOver(weight, TableKeywordsIn(article.title))) \div 10
        tagWeight(t) == SumOver(weight, TableKeywordsIn(article.tags[t]))
        tagBonus == (2 * SumOver(tagWeight, 1..Len(article.tags))) \div 10
        popularityBonus ==
            CASE ~article.hasScore   -> 0
              [] article.score > 100 -> 20
              [] article.score > 50  -> 10
              [] article.score > 20  -> 5
              [] OTHER               -> 0
        total == rawScore + titleBonus + tagBonus + popularityBonus
    IN  IF total >= 300 THEN 300 ELSE total

ClaimedScoreOf ==
    [a \in ScoreArticles, k \in KeywordLists |-> ClaimedScore(a, k)]

\* C16: the score filterArticles gives an article is
\* min(1.0, (rawScore + titleBonus + tagBonus + popularityBonus) / 3) with the
\* four terms as the claim defines them; popularity scores of exactly 100, 50
\* and 20 fall in the lower band.
C16_ScoreFormula ==
    \A i \in 1..Len(fcall.articlesWithScore) :
        fcall.articlesWithScore[i].relevanceScore
            = ClaimedScoreOf[fcall.articles[i], fcall.criteria.keywords]

\* an article with popularity score exactly 100, a tag bonus, a custom
\* keyword in its corpus and a score below the clamp
C16_Witness ==
    /\ fcall.pc = "returned"
    /\ Len(fcall.articles) = 1
    /\ fcall.articles[1].hasScore /\ fcall.articles[1].score = 100
    /\ fcall.articles[1].tags # <<>>
    /\ fcall.criteria.keywords # <<>>
    /\ fcall.articlesWithScore[1].relevanceScore
          = (80 + 50 + 50) + 0 + 16 + 10
    /\ fcall.articlesWithScore[1].relevanceScore < 300

(***************************************************************************)
(* Properties of the Retry Executor                                        *)
(***************************************************************************)
\* the predicate never applies (withRetry) or has answered true every time
PredicateAlwaysTrue ==
    \A i \in 1..Len(renv.consults) : renv.consults[i].answer

\* C5: when the operation fails its first k <= maxRetries invocations and then
\* succeeds, withRetry, and withRetryCondition under a predicate that always
\* answers true, return the value of invocation k+1, the operation is invoked
\* k+1 times and never again after the return.
C5_SuccessAfterKFailures ==
    (rcall.pc # "idle" /\ renv.failFirst <= rcall.maxRetries /\ PredicateAlwaysTrue) =>
        /\ rcall.invocations <= renv.failFirst + 1
        /\ rcall.pc # "thrown"
        /\ rcall.pc = "returned" =>
              /\ rcall.invocations = renv.failFirst + 1
              /\ rcall.value = ValueOf(renv.failFirst + 1)
              /\ ~ENABLED RetryNext

\* withRetryCondition returned after maxRetries failures, all of them retried
C5_Witness ==
    /\ rcall.pc = "returned"
    /\ rcall.mode = "withRetryCondition"
    /\ rcall.maxRetries = MaxRetriesBound
    /\ renv.failFirst = rcall.maxRetries
    /\ Len(renv.consults) = rcall.maxRetries
    /\ PredicateAlwaysTrue

\* C6: when every invocation fails, withRetry invokes the operation exactly
\* maxRetries+1 times and rejects with a RetryError whose attemptCount is
\* maxRetries+1 and whose lastError is the error of the last invocation.
C6_ExhaustionAfterMaxRetriesPlusOne ==
    (rcall.mode = "withRetry" /\ renv.failFirst >= rcall.maxRetries + 1) =>
        /\ rcall.invocations <= rcall.maxRetries + 1
        /\ rcall.pc # "returned"
        /\ rcall.pc = "thrown" =>
              /\ rcall.invocations = rcall.maxRetries + 1
              /\ rcall.error.name = "RetryError"
              /\ rcall.error.attemptCount = rcall.maxRetries + 1
              /\ rcall.error.lastError = ErrorOf(rcall.maxRetries + 1, renv.kind)
              /\ ~ENABLED RetryNext

C6_Witness ==
    /\ rcall.mode = "withRetry"
    /\ rcall.pc = "thrown"
    /\ rcall.maxRetries = MaxRetriesBound
    /\ rcall.invocations = MaxRetriesBound + 1
    /\ rcall.sleeps = MaxRetriesBound

\* C7: once the predicate has answered false after failed attempt a,
\* withRetryCondition has stopped: a invocations, a-1 sleeps (none after the
\* answer), nothing more to run, and the RetryError carries the error of
\* attempt a.
C7_PredicateFalseStopsImmediately ==
    (Len(renv.consults) > 0 /\ ~renv.consults[Len(renv.consults)].answer) =>
        LET last == renv.consults[Len(renv.consults)]
        IN  /\ rcall.pc = "thrown"
            /\ rcall.invocations = last.attempt
            /\ rcall.sleeps = last.attempt - 1
            /\ rcall.error.name = "RetryError"
            /\ rcall.error.lastError = last.error
            /\ last.error = ErrorOf(last.attempt, renv.kind)
            /\ ~ENABLED RetryNext

\* the predicate said no while retries were left
C7_Witness ==
    /\ rcall.mode = "withRetryCondition"
    /\ rcall.pc = "thrown"
    /\ Len(renv.consults) = 2
    /\ renv.consults[1].answer
    /\ ~renv.consults[2].answer
    /\ rcall.maxRetries >= 2
    /\ rcall.invocations = 2

\* C11 (as claimed): a run in which the orchestration itself raised an
\* exception (here filterArticles, on a criteria object without
\* excludeKeywords) does not return a CollectionResult.
C11_OrchestrationExceptionIsFatal ==
    ~(phase = "Done" /\ FilterThrows(uniqueArticles, config))

\* C12 (as claimed): a run with no enabled source, or in which no enabled
\* source succeeded, returns an empty article list and a non-empty error
\* list.
C12_NoSourceGivesEmptyListAndErrors ==
    (phase = "Done" /\ Fulfilled = {}) =>
        /\ result.articles = <<>>
        /\ result.errors # <<>>

\* C13 (as claimed): an adapter whose call failed with an error the HTTP
\* retry predicate does not retry (a 404) has been invoked once and is failed,
\* with no further attempt.
C13_NonRetryableFailureIsNotRetried ==
    \A i \in 1..Len(collectionPromises) :
        LET call == collectionPromises[i].call
        IN  (call.lastError.kind \in ErrorKinds /\ ~HttpRetryable[call.lastError.kind]) =>
                /\ call.invocations = 1
                /\ call.pc = "thrown"

(***************************************************************************)
(* Properties of the DeduplicationService                                  *)
(***************************************************************************)
\* a and b normalize to the same URL or to the same title
SameIdentity(a, b) ==
    \/ normalizeUrl(a.url) = normalizeUrl(b.url)
    \/ normalizeTitle(a.title) = normalizeTitle(b.title)

IdentityTable == [a \in DedupArticles, b \in DedupArticles |-> SameIdentity(a, b)]

\* the last call was deduplicateArticles on an instance with empty seen-sets
FreshCallReturned ==
    dcall.pc = "returned" /\ dcall.urlsBefore = {} /\ dcall.titlesBefore = {}

PairwiseDistinct(s) == \A i \in 1..Len(s) : \A j \in 1..Len(s) : i # j => s[i] # s[j]

\* C14 (as claimed): on a fresh instance the result is a subsequence of the
\* input, and of two input items with the same normalized URL or the same
\* normalized title the later one is never kept.
C14_OnlyFirstOfEqualItemsKept ==
    (FreshCallReturned /\ PairwiseDistinct(dcall.articles)) =>
        /\ IsSubsequence(dcall.out, dcall.articles)
        /\ \A i \in 1..Len(dcall.articles) : \A j \in 1..Len(dcall.articles) :
              (i < j /\ IdentityTable[dcall.articles[i], dcall.articles[j]]) =>
                  dcall.articles[j] \notin Range(dcall.out)

\* C14 (amended): on a fresh instance the result is a subsequence of the
\* input in which no two items share a normalized URL or title; every input
\* item shares one with a kept item; an item is dropped exactly when an
\* earlier KEPT item has its normalized URL or title (an item that only
\* repeats a dropped item is kept); and [A, A'] with A and A' normalizing
\* identically yields [A].
C14_FirstOfEqualKeptItemsKept ==
    FreshCallReturned =>
        /\ IsSubsequence(dcall.out, dcall.articles)
        /\ \A p \in 1..Len(dcall.out) : \A q \in 1..Len(dcall.out) :
              p < q => ~IdentityTable[dcall.out[p], dcall.out[q]]
        /\ \A j \in 1..Len(dcall.articles) : \E p \in 1..Len(dcall.out) :
              IdentityTable[dcall.articles[j], dcall.out[p]]
        /\ PairwiseDistinct(dcall.articles) =>
              \A j \in 1..Len(dcall.articles) :
                  dcall.articles[j] \in Range(dcall.out)
                      <=> ~\E i \in 1..(j - 1) :
                              /\ dcall.articles[i] \in Range(dcall.out)
                              /\ IdentityTable[dcall.articles[i], dcall.articles[j]]
        /\ (Len(dcall.articles) = 2
               /\ IdentityTable[dcall.articles[1], dcall.articles[2]]) =>
              dcall.out = <<dcall.articles[1]>>

\* a fresh call on [A, B, C]: B repeats the URL of A and is dropped, C repeats
\* the title of B only and is kept
C14_Witness ==
    /\ FreshCallReturned
    /\ Len(dcall.articles) = 3
    /\ normalizeUrl(dcall.articles[1].url) = normalizeUrl(dcall.articles[2].url)
    /\ normalizeTitle(dcall.articles[2].title) = normalizeTitle(dcall.articles[3].title)
    /\ dcall.articles[2].title # dcall.articles[3].title
    /\ dcall.out = <<dcall.articles[1], dcall.articles[3]>>

\* C15: what an instance has recorded stays recorded across calls (an input
\* item whose normalized URL or title was recorded before the call is not
\* returned, and what a call keeps is recorded after it); after clearCache
\* both sets are empty, and a call that finds them empty keeps its first item
\* and leaves exactly the URLs and titles of the items it kept.
C15_SeenSetsPersistUntilCleared ==
    /\ dcall.pc = "returned" =>
          /\ dcall.urlsBefore \subseteq seenUrls
          /\ dcall.titlesBefore \subseteq seenTitles
          /\ \A j \in 1..Len(dcall.articles) :
                (\/ HashOf[dcall.articles[j]].url \in dcall.urlsBefore
                 \/ HashOf[dcall.articles[j]].normalizedTitle \in dcall.titlesBefore) =>
                    dcall.articles[j] \notin Range(dcall.out)
          /\ \A p \in 1..Len(dcall.out) :
                /\ HashOf[dcall.out[p]].url \in seenUrls
                /\ HashOf[dcall.out[p]].normalizedTitle \in seenTitles
    /\ dcall.pc = "cleared" => (seenUrls = {} /\ seenTitles = {})
    /\ (FreshCallReturned /\ dcall.articles # <<>>) =>
          /\ dcall.out # <<>>
          /\ dcall.out[1] = dcall.articles[1]
          /\ seenUrls = {HashOf[dcall.out[p]].url : p \in 1..Len(dcall.out)}
          /\ seenTitles = {HashOf[dcall.out[p]].normalizedTitle : p \in 1..Len(dcall.out)}

\* clearCache was called on an instance whose sets earlier calls had filled
C15_Witness ==
    /\ dcall.pc = "cleared"
    /\ Cardinality(dcall.urlsBefore) >= 2
    /\ Cardinality(dcall.titlesBefore) >= 2
    /\ seenUrls = {}

\* C37: on one instance, after any deduplicateArticles and clearCache calls,
\* getCacheStats reports as many URLs as titles, and both are the number of
\* items the calls since the last clearCache (or since construction) have
\* returned: none after clearCache, and after a call the number before it
\* plus the length of the list it returned.
C37_CacheStatsCountKeptItems ==
    LET stats == getCacheStats(seenUrls, seenTitles)
    IN  /\ stats.urls = stats.titles
        /\ stats.urls = dcall.keptSinceClear
        /\ dcall.pc = "cleared" => stats = [urls |-> 0, titles |-> 0]
        /\ dcall.pc = "returned" =>
              /\ stats.urls = Cardinality(dcall.urlsBefore) + Len(dcall.out)
              /\ stats.titles = Cardinality(dcall.titlesBefore) + Len(dcall.out)

\* a call on an instance that earlier calls had filled with two items was
\* handed two, kept one and dropped the other; the statistics say 3 and 3
C37_Witness ==
    /\ dcall.pc = "returned"
    /\ Cardinality(dcall.urlsBefore) >= 1
    /\ Len(dcall.articles) = 2
    /\ Len(dcall.out) = 1
    /\ dcall.duplicateCount.url + dcall.duplicateCount.title = 1
    /\ dcall.keptSinceClear = 3
    /\ getCacheStats(seenUrls, seenTitles) = [urls |-> 3, titles |-> 3]

\* C19: deduplicateArticles and filterArticles leave the array they are
\* handed and the articles in it as they were; every collected article has
\* the adapters' relevance score 0 until the filter step, which is the only
\* step that sets result.articles, and every article of the result is a
\* deduplicated article with the scorer's score in place of 0.
C19_InputsNeverModifiedScoredOnce ==
    /\ [][/\ phase = "Deduplicating" => articles' = articles
          /\ phase = "Filtering" => (articles' = articles /\ uniqueArticles' = uniqueArticles)
          /\ result'.articles # result.articles => phase = "Filtering"]_vars
    /\ [](/\ \A i \in 1..Len(articles) : articles[i].relevanceScore = 0
          /\ \A i \in 1..Len(uniqueArticles) : uniqueArticles[i].relevanceScore = 0
          /\ IsSubsequence(uniqueArticles, articles)
          /\ \A r \in 1..Len(result.articles) :
                LET unscored == [result.articles[r] EXCEPT !.relevanceScore = 0]
                IN  /\ \E i \in 1..Len(uniqueArticles) : uniqueArticles[i] = unscored
                    /\ result.articles[r].relevanceScore = ScoreOf[unscored, config.keywords])

\* the deduplication dropped an article, the filter dropped another and
\* returned one with a score above 0
C19_Witness ==
    /\ phase = "Done"
    /\ Len(uniqueArticles) < Len(articles)
    /\ 0 < Len(result.articles)
    /\ Len(result.articles) < Len(uniqueArticles)
    /\ \E r \in 1..Len(result.articles) : result.articles[r].relevanceScore > 0

\* the days and version numbers of the release titles of this model
ReleaseDays == {"5", "6"}
ReleaseVersions == { <<"v","1",".","2",".","3">>, <<"v","1",".","2",".","4">> }

\* two release titles that differ only in their date or only in their version
DifferOnlyInDateOrVersion(t, u) ==
    \E d1 \in ReleaseDays : \E d2 \in ReleaseDays :
        \E v1 \in ReleaseVersions : \E v2 \in ReleaseVersions :
            /\ t = ReleaseTitle(d1, v1)
            /\ u = ReleaseTitle(d2, v2)
            /\ t # u
            /\ d1 = d2 \/ v1 = v2

\* C20 (as claimed): the normalized form of "2024年1月15日 v1.2.3 リリース"
\* contains both YYYY-MM-DD and vX.X.X, and of two input titles that differ
\* only in their date or only in their version number a fresh
\* DeduplicationService never keeps both.
C20_DatesAndVersionsBecomePlaceholders ==
    FreshCallReturned =>
        /\ \A i \in 1..Len(dcall.articles) :
              dcall.articles[i].title = ReleaseTitle("5", <<"v","1",".","2",".","3">>)
              => /\ includes(normalizeTitle(dcall.articles[i].title), DatePlaceholder)
                 /\ includes(normalizeTitle(dcall.articles[i].title), VersionPlaceholder)
        /\ \A i \in 1..Len(dcall.out) : \A j \in 1..Len(dcall.out) :
              ~DifferOnlyInDateOrVersion(dcall.out[i].title, dcall.out[j].title)

\* C27: while collectFromAllSources waits, every enabled adapter has been
\* invoked at least once, whatever the others have done; an adapter waiting
\* on I/O can resolve or reject, and an adapter in a retry sleep can wake
\* for its next invocation, whatever state the other adapters are in.
C27_AdaptersRunConcurrently ==
    phase = "Collecting" =>
        \A i \in 1..Len(collectionPromises) :
            LET call == collectionPromises[i].call
            IN  /\ call.invocations >= 1
                /\ call.pc = "awaiting" =>
                        ENABLED AdapterResolve(i) /\ ENABLED AdapterReject(i)
                /\ call.pc = "sleeping" => ENABLED AdapterWake(i)

\* one adapter is in a retry sleep, a second one waits on I/O after a retry
\* and a third one has settled
C27_Witness ==
    /\ phase = "Collecting"
    /\ \E i, j, k \in 1..Len(collectionPromises) :
          /\ collectionPromises[i].call.pc = "sleeping"
          /\ collectionPromises[j].call.pc = "awaiting"
          /\ collectionPromises[j].call.invocations >= 2
          /\ IsSettled(collectionPromises[k])

\* every adapter task of the run has returned or thrown
NoAdapterRunning ==
    \A i \in 1..Len(collectionPromises) :
        collectionPromises[i].call.pc \in {"returned", "thrown"}

\* the steps the phases allow
PhaseOrder ==
    /\ phase' # phase =>
            <<phase, phase'>> \in {<<"Idle", "Collecting">>, <<"Collecting", "Merging">>,
                                   <<"Merging", "Deduplicating">>, <<"Merging", "Done">>,
                                   <<"Deduplicating", "Filtering">>, <<"Filtering", "Done">>}
    /\ (seenUrls' # seenUrls \/ seenTitles' # seenTitles \/ uniqueArticles' # uniqueArticles)
            => phase = "Deduplicating" /\ phase' = "Filtering"
    /\ result'.articles # result.articles => phase = "Filtering" /\ phase' = "Done"
    /\ collectionPromises' # collectionPromises => phase' = "Collecting"

\* C28: the phases follow one another in the order Collecting, Merging,
\* Deduplicating, Filtering; the seen-sets and the lists of admitted and
\* filtered articles change only in the Deduplicating and Filtering steps;
\* and from Merging on, or once anything has been admitted or filtered, no
\* adapter task of the run is still running.
C28_SeenSetsTouchedAfterAllSettled ==
    /\ [][PhaseOrder]_vars
    /\ [](phase \in {"Merging", "Deduplicating", "Filtering", "Done"} => NoAdapterRunning)
    /\ []((seenUrls # {} \/ seenTitles # {} \/ uniqueArticles # <<>>
              \/ result.articles # <<>>) => NoAdapterRunning)

\* articles were admitted after one adapter gave up and another returned
\* after a retry
C28_Witness ==
    /\ phase = "Filtering"
    /\ seenUrls # {}
    /\ \E i, j \in 1..Len(collectionPromises) :
          /\ collectionPromises[i].call.pc = "thrown"
          /\ collectionPromises[j].call.pc = "returned"
          /\ collectionPromises[j].call.invocations >= 2

\* a step of the call in which it starts to sleep
StartsSleep == rcall'.sleeps # rcall.sleeps

\* C30: the call has slept once less than it has invoked the operation,
\* whenever it waits for the operation or has ended, and as often while it
\* sleeps; a sleep starts only when a pending invocation fails with retries
\* left (and, in withRetryCondition, the predicate said yes), and ends only
\* in the next invocation; nothing sleeps before the first invocation, when
\* an invocation succeeds, or when the call gives up.
C30_SleepsOnlyBetweenAttempts ==
    /\ [](/\ rcall.pc = "idle" => rcall.sleeps = 0 /\ rcall.invocations = 0
          /\ rcall.pc \in {"awaiting", "returned", "thrown"}
                => rcall.sleeps = rcall.invocations - 1
          /\ rcall.pc = "sleeping" => rcall.sleeps = rcall.invocations)
    /\ [][/\ StartsSleep =>
               /\ rcall'.sleeps = rcall.sleeps + 1
               /\ rcall.pc = "awaiting" /\ rcall'.pc = "sleeping"
               /\ rcall.invocations <= renv.failFirst
               /\ rcall.attempt <= rcall.maxRetries
               /\ rcall.mode = "withRetryCondition"
                     => renv'.consults[Len(renv'.consults)].answer
          /\ rcall.pc = "sleeping" =>
               /\ rcall'.pc = "awaiting"
               /\ rcall'.invocations = rcall.invocations + 1
          /\ rcall'.pc \in {"returned", "thrown"} => ~StartsSleep]_vars

\* withRetry returned from its second invocation after one sleep, with a
\* retry to spare
C30_Witness ==
    /\ rcall.mode = "withRetry"
    /\ rcall.pc = "returned"
    /\ rcall.sleeps = 1
    /\ rcall.invocations = 2
    /\ rcall.maxRetries >= 2

\* C32: in a call on a new or cleared instance, an item whose normalized URL
\* and normalized title both differ from those of every earlier item of the
\* input is kept, also when isSimilarTitle holds between its title and an
\* earlier kept item's; a list of two such items is returned whole.
C32_SimilarityNeverApplied ==
    FreshCallReturned =>
        /\ \A j \in 1..Len(dcall.articles) :
              (\A i \in 1..(j - 1) :
                    /\ HashOf[dcall.articles[i]].url # HashOf[dcall.articles[j]].url
                    /\ HashOf[dcall.articles[i]].normalizedTitle
                          # HashOf[dcall.articles[j]].normalizedTitle)
              => \E p \in 1..Len(dcall.out) : dcall.out[p] = dcall.articles[j]
        /\ (/\ Len(dcall.articles) = 2
            /\ HashOf[dcall.articles[1]].url # HashOf[dcall.articles[2]].url
            /\ HashOf[dcall.articles[1]].normalizedTitle
                  # HashOf[dcall.articles[2]].normalizedTitle)
           => dcall.out = dcall.articles

\* two items with different normalized URLs and titles, whose titles
\* isSimilarTitle calls similar, were both kept
C32_Witness ==
    /\ FreshCallReturned
    /\ Len(dcall.articles) = 2
    /\ HashOf[dcall.articles[1]].url # HashOf[dcall.articles[2]].url
    /\ HashOf[dcall.articles[1]].normalizedTitle # HashOf[dcall.articles[2]].normalizedTitle
    /\ isSimilarTitle(dcall.articles[1].title, dcall.articles[2].title)
    /\ dcall.out = dcall.articles

\* the list the named source contributed to the run: what its adapter
\* resolved with, or nothing
ContributionOf(name) ==
    IF \E i \in 1..Len(collectionPromises) :
            /\ collectionPromises[i].collector = name
            /\ collectionPromises[i].call.pc = "returned"
    THEN adapters[name] ELSE <<>>

ContributionsInFixedOrder ==
    ContributionOf("Qiita") \o ContributionOf("Zenn")
        \o ContributionOf("HackerNews") \o ContributionOf("Dev.to")

\* C35: the merged list is the concatenation of the successful adapters'
\* lists in the order Qiita, Zenn, HackerNews, Dev.to, whatever the number of
\* invocations each needed and the order they ended in; so the deduplicated
\* list and the returned articles of a run on a new service are determined
\* by the configuration, the adapters' outputs and which adapters succeeded.
C35_MergeOrderIsCollectorOrder ==
    /\ phase \in {"Deduplicating", "Filtering", "Done"} =>
            articles = ContributionsInFixedOrder
    /\ (phase = "Done" /\ articles # <<>>) =>
            LET kept == deduplicateArticles(ContributionsInFixedOrder, {}, {}).unique
            IN  /\ uniqueArticles = kept
                /\ ~FilterThrows(kept, config)
                      => result.articles = filterArticles(kept, CriteriaOf(config))

\* Qiita returned on a retry and Dev.to at its first invocation; the merged
\* list starts with Qiita's two articles, and articles were returned
C35_Witness ==
    /\ phase = "Done"
    /\ \E i, j \in 1..Len(collectionPromises) :
          /\ collectionPromises[i].collector = "Qiita"
          /\ collectionPromises[i].call.pc = "returned"
          /\ collectionPromises[i].call.invocations >= 2
          /\ collectionPromises[j].collector = "Dev.to"
          /\ collectionPromises[j].call.pc = "returned"
          /\ collectionPromises[j].call.invocations = 1
    /\ Len(adapters["Qiita"]) = 2
    /\ SubSeq(articles, 1, 2) = adapters["Qiita"]
    /\ Len(result.articles) >= 1

\* the cache was cleared after run k had returned
ClearedSince(k) ==
    \/ history.lastClear.run > k
    \/ history.lastClear = [run |-> k, phase |-> "Done"]

\* the cache was cleared after the run before this one had returned
ClearedSinceEarlierRun == ClearedSince(Len(history.earlier))

\* a step of a collectAllArticles run
IsRunStep == phase' # phase \/ collectionPromises' # collectionPromises

\* the article without the score filterArticles gave it
Unscored(article) == [article EXCEPT !.relevanceScore = 0]

\* C36: no step of a run takes anything out of the seen-sets; in a run
\* on a service whose cache was not cleared since an earlier run returned,
\* no article that run's deduplication kept is kept or returned again,
\* whether or not that run's filter returned it; and when the later run
\* merges no article the earlier one did not merge, it returns no article.
C36_RunsNeverClearSeenSets ==
    /\ [][IsRunStep => seenUrls \subseteq seenUrls' /\ seenTitles \subseteq seenTitles']_vars
    /\ [](\A k \in 1..Len(history.earlier) :
            (~ClearedSince(k) /\ phase \in {"Filtering", "Done"}) =>
              LET first == history.earlier[k]
              IN  /\ \A a \in Range(first.uniqueArticles) :
                        /\ a \notin Range(uniqueArticles)
                        /\ \A r \in 1..Len(result.articles) :
                              Unscored(result.articles[r]) # a
                  /\ (phase = "Done" /\ Range(articles) \subseteq Range(first.articles))
                        => result.articles = <<>>)

\* two runs in which the same adapters returned the same lists: the first
\* returned articles, fewer than its deduplication kept, the second none
C36_Witness ==
    /\ phase = "Done"
    /\ Len(history.earlier) = 1
    /\ ~ClearedSinceEarlierRun
    /\ articles # <<>>
    /\ articles = history.earlier[1].articles
    /\ history.earlier[1].result.articles # <<>>
    /\ Len(history.earlier[1].result.articles) < Len(history.earlier[1].uniqueArticles)
    /\ result.articles = <<>>
    /\ result.errors = <<>>

\* the adapter calls of the run that failed, in the order of the promises
FailedCalls ==
    LET failed(promise) == promise.call.pc = "thrown"
    IN  SelectSeq(collectionPromises, failed)

\* the run returns at step 2 because nothing was collected
ReturnsOnEmptyMerge == phase = "Merging" /\ phase' = "Done"

\* the run returns from step 4 with an empty list that filterArticles
\* returned
ReturnsEmptyFilterOutput ==
    /\ phase = "Filtering" /\ phase' = "Done"
    /\ ~FilterThrows(uniqueArticles, config)
    /\ result'.articles = <<>>

\* C33: a run whose merged list is empty returns a result with no articles
\* and one CollectionError per failed adapter, in the adapters' order, each
\* with that adapter's error (and, on a service whose configuration was not
\* replaced, its name), none of them the service's own, and leaves the
\* seen-sets as they were; a run whose filter output is empty returns with
\* the errors it had, none added.
C33_EmptyIsNotAnError ==
    /\ [][/\ ReturnsOnEmptyMerge =>
               /\ result'.articles = <<>>
               /\ Len(result'.errors) = Len(FailedCalls)
               /\ \A k \in 1..Len(FailedCalls) :
                     /\ result'.errors[k].error = FailedCalls[k].call.error
                     /\ history.updates = 0
                           => result'.errors[k].source = FailedCalls[k].collector
               /\ seenUrls' = seenUrls /\ seenTitles' = seenTitles
          /\ ReturnsEmptyFilterOutput => result'.errors = result.errors]_vars
    /\ []((phase = "Done" /\ (articles = <<>> \/ uniqueArticles = <<>>)) =>
            /\ result.articles = <<>>
            /\ \A k \in 1..Len(result.errors) :
                  result.errors[k].source # "ArticleCollectorService")

\* a second run in which the only enabled adapter failed returned no
\* article and that adapter's error, and the seen-sets of the first run are
\* still there
C33_Witness ==
    /\ phase = "Done"
    /\ Len(history.earlier) = 1
    /\ ~ClearedSinceEarlierRun
    /\ articles = <<>>
    /\ seenUrls # {}
    /\ Len(collectionPromises) = 1
    /\ result.articles = <<>>
    /\ Len(result.errors) = 1
    /\ result.errors[1].source = collectionPromises[1].collector

\* the step of a run that merges the settled results
MergeStep == phase = "Merging" /\ phase' # "Merging"

\* C38: the errors a run merges are one per failed adapter call, in the
\* order of the calls, each naming the adapter that made the call, also
\* when updateConfig was called while the run awaited the calls.
C38_ErrorsNameTheFailedAdapter ==
    [][MergeStep =>
          /\ Len(result'.errors) = Len(FailedCalls)
          /\ \A k \in 1..Len(FailedCalls) :
                result'.errors[k].source = FailedCalls[k].collector]_vars

\* the input items before the j-th that the call kept
KeptBefore(j) == {dcall.articles[i] : i \in 1..(j - 1)} \cap Range(dcall.out)

\* the j-th input item's normalized URL was recorded before the call or is
\* that of an item kept before it
UrlSeenAt(j) ==
    HashOf[dcall.articles[j]].url
        \in dcall.urlsBefore \cup {HashOf[a].url : a \in KeptBefore(j)}

TitleSeenAt(j) ==
    HashOf[dcall.articles[j]].normalizedTitle
        \in dcall.titlesBefore \cup {HashOf[a].normalizedTitle : a \in KeptBefore(j)}

\* C29: after a deduplicateArticles call the seen-URL set is what it was
\* before the call plus the normalized URLs of the items the call kept, and
\* the seen-title set likewise (nothing is recorded for a dropped item); an
\* item is kept exactly when neither its normalized URL nor its normalized
\* title is that of a recorded or earlier kept item; an item whose URL is
\* recorded counts as a URL duplicate whether or not its title is recorded
\* too, and as a title duplicate only otherwise; after clearCache, and on a
\* new instance, both sets are empty.
C29_UrlCheckedFirstNothingRecordedForDropped ==
    /\ dcall.pc \in {"new", "cleared"} => seenUrls = {} /\ seenTitles = {}
    /\ dcall.pc = "returned" =>
          LET positions == 1..Len(dcall.articles)
          IN  /\ seenUrls = dcall.urlsBefore \cup {HashOf[a].url : a \in Range(dcall.out)}
              /\ seenTitles = dcall.titlesBefore
                                \cup {HashOf[a].normalizedTitle : a \in Range(dcall.out)}
              /\ \A j \in positions :
                    (~UrlSeenAt(j) /\ ~TitleSeenAt(j)) => dcall.articles[j] \in Range(dcall.out)
              /\ Len(dcall.out)
                    = Cardinality({j \in positions : ~UrlSeenAt(j) /\ ~TitleSeenAt(j)})
              /\ dcall.duplicateCount.url = Cardinality({j \in positions : UrlSeenAt(j)})
              /\ dcall.duplicateCount.title
                    = Cardinality({j \in positions : ~UrlSeenAt(j) /\ TitleSeenAt(j)})

\* [A, B, C]: B has the title of A and is dropped as a title duplicate, C has
\* the URL of B and a new title and is kept
C29_Witness ==
    /\ dcall.pc = "returned"
    /\ dcall.urlsBefore = {}
    /\ Len(dcall.articles) = 3
    /\ HashOf[dcall.articles[2]].normalizedTitle = HashOf[dcall.articles[1]].normalizedTitle
    /\ HashOf[dcall.articles[2]].url # HashOf[dcall.articles[1]].url
    /\ HashOf[dcall.articles[3]].url = HashOf[dcall.articles[2]].url
    /\ dcall.out = <<dcall.articles[1], dcall.articles[3]>>
    /\ dcall.duplicateCount = [url |-> 0, title |-> 1]

\* the requests of the call answered with articles
AnsweredRequests ==
    {i \in 1..Len(qcall.requests) : qcall.requests[i].outcome \in {"full", "short"}}

C25_NotifierOnceFailureNotFatal ==
    /\ Len(mainRun.notified) <= 1
    /\ mainRun.pc \in {"notifying", "completed", "errorNotifying", "exited"}
          => mainRun.notified = <<result.articles>>
    /\ mainRun.notifierFailed /\ mainRun.pc \in {"errorNotifying", "exited"}
          => mainRun.success /\ mainRun.exitCode = 0

TimedOutWords == <<"t","i","m","e","d"," ","o","u","t">>

\* this step is the timer of the pending attempt firing
IsTimeoutStep ==
    /\ rcall.pc = "awaiting"
    /\ rcall'.lastError = TimeoutErrorOf(rcall.invocations)

InFlight ==
    renv.running \cup (IF rcall.pc = "awaiting" THEN {rcall.invocations} ELSE {})

\* the invocations whose timer fired first
TimedOut == renv.running \cup {renv.discarded[i].inv : i \in 1..Len(renv.discarded)}

\* C39: in executeWithTimeoutAndRetry the timer firing stops no invocation:
\* the invocation it beat and those beaten before keep running, so that at
\* most maxRetries + 1 invocations are in flight at once; an invocation
\* that settles after its timer fired changes nothing in the call, and a
\* call that returns returns the value of its last invocation, which is
\* none of the timed-out ones.
C39_TimedOutInvocationsRunOn ==
    /\ [][IsTimeoutStep =>
             /\ rcall.invocations \in renv'.running
             /\ renv.running \subseteq renv'.running]_vars
    /\ [][renv'.discarded # renv.discarded => rcall' = rcall]_vars
    /\ [](/\ Cardinality(InFlight) <= rcall.maxRetries + 1
          /\ rcall.pc = "returned" =>
                /\ rcall.value = ValueOf(rcall.invocations)
                /\ rcall.value.inv \notin TimedOut)

\* the last attempt of a call with retries is pending while the
\* invocations of all earlier attempts, which timed out, are still running
C39_Witness ==
    /\ rcall.mode = "executeWithTimeoutAndRetry"
    /\ rcall.pc = "awaiting"
    /\ rcall.maxRetries >= 1
    /\ rcall.invocations = rcall.maxRetries + 1
    /\ renv.running = 1..rcall.maxRetries
    /\ Cardinality(InFlight) = rcall.maxRetries + 1

\* C34 (as claimed): the predicate answers true for the error of every
\* timeout, whatever the operation name and the time limit.
C34_TimeoutIsRetryable ==
    \A i \in 1..Len(renv.consults) : renv.consults[i].answer

\* the error of a consultation carries a signal of the class
Carries(consult, class) ==
    \E i \in 1..Len(consult.error.signals) : consult.error.signals[i].class = class

TrackingNames == {"utm_source", "utm_medium", "utm_campaign", "ref", "source"}

\* the parameters of a query that are not tracking parameters, in order
NonTracking(query) == LET other(p) == p.k \notin TrackingNames IN SelectSeq(query, other)

\* a path that does not end in a slash, the path "/" among them
NoTrailingSlash(path) == path = <<"">> \/ path[Len(path)] # ""

\* two valid URLs that differ at most in tracking parameters and in one
\* trailing slash
DifferOnlyInTrackingOrSlash(u, w) ==
    /\ u.valid /\ w.valid
    /\ u.host = w.host
    /\ NonTracking(u.query) = NonTracking(w.query)
    /\ \/ u.path = w.path
       \/ NoTrailingSlash(u.path) /\ w.path = Append(u.path, "")
       \/ NoTrailingSlash(w.path) /\ u.path = Append(w.path, "")

\* C21: normalizeUrl keeps host and the non-tracking parameters in their
\* order, removes every tracking parameter, removes one trailing slash from
\* a path other than "/", and maps https://a.com/x/?utm_source=y&ref=z to
\* https://a.com/x; of two articles whose URLs differ only in tracking
\* parameters or in one trailing slash the second is dropped.
C21_UrlNormalization ==
    dcall.pc = "returned" =>
        /\ \A i \in 1..Len(dcall.articles) :
              LET u == dcall.articles[i].url
                  n == normalizeUrl(u)
              IN  u.valid =>
                    /\ n.valid /\ n.host = u.host
                    /\ n.query = NonTracking(u.query)
                    /\ n.path = IF u.path # <<"">> /\ u.path[Len(u.path)] = ""
                                THEN SubSeq(u.path, 1, Len(u.path) - 1) ELSE u.path
                    /\ u = Url("a.com", <<"x", "">>,
                               <<[k |-> "utm_source", v |-> "y"], [k |-> "ref", v |-> "z"]>>)
                       => n = Url("a.com", <<"x">>, <<>>)
        /\ DifferOnlyInTrackingOrSlash(dcall.articles[1].url, dcall.articles[2].url)
              => dcall.out = <<dcall.articles[1]>>

\* https://a.com/x/?utm_source=y&ref=z came second after https://a.com/x
\* and was dropped
C21_Witness ==
    /\ dcall.pc = "returned"
    /\ Len(dcall.articles) = 2
    /\ dcall.articles[1].url = Url("a.com", <<"x">>, <<>>)
    /\ dcall.articles[2].url = Url("a.com", <<"x", "">>,
                                   <<[k |-> "utm_source", v |-> "y"], [k |-> "ref", v |-> "z"]>>)
    /\ dcall.out = <<dcall.articles[1]>>

\* C8 (as claimed): the attemptCount of the RetryError is the number of times
\* the operation was invoked.
C8_AttemptCountIsInvocations ==
    rcall.pc = "thrown" => rcall.error.attemptCount = rcall.invocations

====
